---- MODULE Spec2Model ----
(***************************************************************************)
(* A model of the randomized exam assignment engine of examma-ray:        *)
(* ExamGenerator (construction, assignExam, assignExams, checkExam) and   *)
(* createStudentUuid of ExamUtils.                                         *)
(*                                                                         *)
(* JavaScript objects are records; a Partial<...> object is a function    *)
(* whose DOMAIN is the set of keys that are present.  Object identity of   *)
(* a specification object is its `spec` tag.  A thrown assertion is a      *)
(* result with threw = TRUE.                                               *)
(***************************************************************************)
EXTENDS Integers, Sequences, FiniteSets, TLC

\* ------------------------------------------------------------------ bounds
\* Students processed (built or attempted) per generator.
MaxAssigned == 3
\* Longest roster handed to one assignExams call.
MaxRoster == 2
\* Students processed per generator when two generators run side by side.
MaxPairAssigned == 2

\* ------------------------------------------------------------ JS helpers
NoKeys == [k \in {} |-> TRUE]

Has(o, k) == k \in DOMAIN o

\* JavaScript truthiness of a boolean option o[k] (undefined is falsy).
Truthy(o, k) == Has(o, k) /\ o[k] = TRUE

\* JavaScript truthiness of a string option o[k] (undefined and "" are falsy).
TruthyString(o, k) == Has(o, k) /\ o[k] # ""

RECURSIVE Flatten(_)
\* Array.prototype.flatMap's concatenation of the mapped arrays.
Flatten(seqs) ==
  IF seqs = <<>> THEN <<>> ELSE Head(seqs) \o Flatten(Tail(seqs))

RECURSIVE SumSeq(_)
SumSeq(ns) == IF ns = <<>> THEN 0 ELSE Head(ns) + SumSeq(Tail(ns))

\* ------------------------------------------------------- generator options
DEFAULT_OPTIONS ==
  [ frontend_js_path |-> "js/frontend.js",
    frontend_media_dir |-> "media",
    uuid_strategy |-> "plain",
    allow_duplicates |-> FALSE ]

\* Only the presence of the namespace is verified, not its length.
verifyOptionsPresenceOnly(options) ==
  ~(Has(options, "uuid_strategy") /\ options.uuid_strategy = "uuidv5")
    \/ TruthyString(options, "uuidv5_namespace")

\* verifyOptions: TRUE when both assertions pass on the options as passed in.
verifyOptions(options) ==
  /\ (~(Has(options, "uuid_strategy") /\ options.uuid_strategy = "uuidv5")
        \/ TruthyString(options, "uuidv5_namespace"))
  /\ (~TruthyString(options, "uuidv5_namespace")
        \/ Len(options.uuidv5_namespace) >= 16)

\* Object.assign({}, DEFAULT_OPTIONS, options)
mergeOptions(options) == options @@ DEFAULT_OPTIONS

\* ------------------------------------------------------------------ uuids
THROWN == "<AssertionError>"

\* uuid.v4(): a fresh value; rnd identifies the draw.
uuidv4(rnd) == "v4:" \o ToString(rnd)

\* uuid.v5(name, namespace): a function of (name, namespace).
uuidv5(name, namespace) == "v5:" \o namespace \o ":" \o name

\* Every strategy draws a random uuid.
createStudentUuidRandom(options, student, id, rnd) ==
  uuidv4(rnd)

\* The plain strategy without its separator.
createStudentUuidNoSeparator(options, student, id, rnd) ==
  student.uniqname \o id

\* The uuidv5 name is the uniqname alone.
createStudentUuidIgnoringId(options, student, id, rnd) ==
  IF options.uuid_strategy = "plain" THEN student.uniqname \o "-" \o id
  ELSE IF options.uuid_strategy = "uuidv4" THEN uuidv4(rnd)
  ELSE IF TruthyString(options, "uuidv5_namespace")
    THEN uuidv5(student.uniqname, options.uuidv5_namespace)
    ELSE THROWN

\* One uuid per student, whatever the id.
createStudentUuidPerStudent(options, student, id, rnd) ==
  IF options.uuid_strategy = "uuidv4" THEN uuidv4(rnd)
  ELSE student.uniqname

createStudentUuid(options, student, id, rnd) ==
  IF options.uuid_strategy = "plain" THEN student.uniqname \o "-" \o id
  ELSE IF options.uuid_strategy = "uuidv4" THEN uuidv4(rnd)
  ELSE IF options.uuid_strategy = "uuidv5" THEN
    IF TruthyString(options, "uuidv5_namespace")
      THEN uuidv5(student.uniqname \o "-" \o id, options.uuidv5_namespace)
      ELSE THROWN
  ELSE THROWN

\* ------------------------------------------------ randomizers and choosers
CHOOSE_ALL == [kind |-> "choose_all", seed |-> "", id |-> ""]

createSectionChoiceRandomizer(seed, exam) ==
  [kind |-> "section_choice", seed |-> seed, id |-> exam.exam_id]

createQuestionChoiceRandomizer(seed, exam, section) ==
  [kind |-> "question_choice", seed |-> seed, id |-> section.section_id]

createSectionSkinRandomizer(seed, exam, section) ==
  [kind |-> "section_skin", seed |-> seed, id |-> section.section_id]

createQuestionSkinRandomizer(seed, exam, question) ==
  [kind |-> "question_skin", seed |-> seed, id |-> question.question_id]

\* The pseudo-random stream of a seed string, as a number.
SeedHash(seed) ==
  CASE seed = "common" -> 0
    [] seed = "ann" -> 1
    [] seed = "bob" -> 2
    [] seed = "cat" -> 7
    [] OTHER -> 5

\* Each kind of randomizer reads a different part of the stream.
Stride(kind) ==
  CASE kind = "section_choice" -> 1
    [] kind = "question_choice" -> 2
    [] kind = "section_skin" -> 2
    [] kind = "question_skin" -> 1
    [] OTHER -> 1

\* 0-based start of the sample a randomizer draws from a pool of m items.
RandomStart(rand, m) == (SeedHash(rand.seed) \div Stride(rand.kind)) % m

\* n items of pool, without replacement, reproducible per randomizer.
Sample(pool, n, rand) ==
  [i \in 1..n |-> pool[((RandomStart(rand, Len(pool)) + i - 1) % Len(pool)) + 1]]

\* A chooser's choose(exam, student, rand): Fixed, or N of a pool.
Choose(chooser, exam, student, rand) ==
  IF chooser.kind = "fixed" THEN <<chooser.item>>
  ELSE IF rand.kind = "choose_all" THEN chooser.pool
  ELSE Sample(chooser.pool, chooser.n, rand)

chooseSections(chooser, exam, student, rand) == Choose(chooser, exam, student, rand)

chooseQuestions(chooser, exam, student, rand) == Choose(chooser, exam, student, rand)

\* skin.choose(exam, student, rand) of a skin chooser
chooseSkins(skin, exam, student, rand) ==
  IF rand.kind = "choose_all" THEN skin.pool ELSE Sample(skin.pool, skin.n, rand)

createCompositeSkin(sectionSkin, qSkin) ==
  [component_kind |-> "skin", skin_id |-> sectionSkin.skin_id \o "-" \o qSkin.skin_id]

\* ------------------------------------------------- exam specifications
Skin(id) == [component_kind |-> "skin", skin_id |-> id]

SkinChooser(n, pool) == [component_kind |-> "chooser", n |-> n, pool |-> pool]

DEFAULT_SKIN == Skin("default")

Fixed(item) == [kind |-> "fixed", item |-> item]

ChooseN(n, pool) == [kind |-> "choose", n |-> n, pool |-> pool]

\* A Question / Section built from a specification object; `spec` is the
\* identity of that specification object.
Question(id, spec, points, skin) ==
  [question_id |-> id, spec |-> spec, pointsPossible |-> points, skin |-> skin]

Section(id, spec, skin, questions) ==
  [section_id |-> id, spec |-> spec, skin |-> skin, questions |-> questions]

Exam(id, sections) == [exam_id |-> id, sections |-> sections]

\* test/test-exams/gen.ts "simple_test": one fixed section, two fixed
\* questions, worth 3 and 5 points.
ExamSimple ==
  Exam("simple_test",
    << Fixed(Section("section", "S0", DEFAULT_SKIN,
         << Fixed(Question("simple_test_1", "Q1", 3, DEFAULT_SKIN)),
            Fixed(Question("simple_test_2", "Q2", 5, DEFAULT_SKIN)) >>)) >>)

\* One of two section variants with different point totals.
ExamPoints ==
  Exam("points",
    << ChooseN(1,
         << Section("sec_a", "SA", DEFAULT_SKIN,
              << Fixed(Question("qa", "QA", 3, DEFAULT_SKIN)) >>),
            Section("sec_b", "SB", DEFAULT_SKIN,
              << Fixed(Question("qb", "QB", 5, DEFAULT_SKIN)) >>) >>) >>)

\* Variants that share an id but come from different specification objects,
\* for sections and for questions.
ExamDrift ==
  Exam("drift",
    << ChooseN(1,
         << Section("sec_x", "SX1", DEFAULT_SKIN,
              << Fixed(Question("qx", "QX", 2, DEFAULT_SKIN)) >>),
            Section("sec_x", "SX2", DEFAULT_SKIN,
              << Fixed(Question("qx", "QX", 2, DEFAULT_SKIN)) >>) >>),
       Fixed(Section("sec_y", "SY", DEFAULT_SKIN,
         << ChooseN(1,
              << Question("qy", "QY1", 4, DEFAULT_SKIN),
                 Question("qy", "QY2", 4, DEFAULT_SKIN) >>) >>)) >>)

\* Skin choosers on a section and on its questions: one skin per slot for
\* the first question, two for the second.
ExamSkins ==
  Exam("skins",
    << Fixed(Section("sec_k", "SK", SkinChooser(1, <<Skin("red"), Skin("blue")>>),
         << Fixed(Question("qk", "QK", 6, SkinChooser(1, <<Skin("x"), Skin("y")>>))),
            ChooseN(1,
              << Question("qm", "QM", 1, DEFAULT_SKIN),
                 Question("qn", "QN", 1, SkinChooser(2, <<Skin("u"), Skin("v")>>)) >>) >>)) >>)

Exams == {ExamSimple, ExamPoints, ExamDrift, ExamSkins}

Student(uniqname, name) == [uniqname |-> uniqname, name |-> name]

Students == {Student("ann", "Ann"), Student("bob", "Bob"), Student("cat", "Cat")}

\* ------------------------------------------------------ assignment builder
\* new AssignedExam(uuid, exam, student, assignedSections, allowDuplicates)
AssignedExam(uuid, exam, student, assignedSections, allowDuplicates) ==
  [ uuid |-> uuid,
    exam_id |-> exam.exam_id,
    student |-> student,
    assignedSections |-> assignedSections,
    pointsPossible |->
      SumSeq(Flatten([i \in 1..Len(assignedSections) |->
        [j \in 1..Len(assignedSections[i].assignedQuestions) |->
          assignedSections[i].assignedQuestions[j].question.pointsPossible]])),
    allow_duplicates |-> allowDuplicates ]

AssignedSection(uuid, section, sectionIndex, skin, assignedQuestions) ==
  [ uuid |-> uuid, section |-> section, sectionIndex |-> sectionIndex,
    skin |-> skin, assignedQuestions |-> assignedQuestions ]

AssignedQuestion(uuid, exam, student, question, skin, sectionIndex, partIndex) ==
  [ uuid |-> uuid, exam_id |-> exam.exam_id, student |-> student,
    question |-> question, skin |-> skin,
    sectionIndex |-> sectionIndex, partIndex |-> partIndex ]

Threw == [threw |-> TRUE, items |-> <<>>]

Built(items) == [threw |-> FALSE, items |-> items]

\* The results of mapping a throwing function over an array and flattening.
FlatResults(results) ==
  IF \E i \in 1..Len(results) : results[i].threw THEN Threw
  ELSE Built(Flatten([i \in 1..Len(results) |-> results[i].items]))

\* The seed is the student's, whatever the options say.
makeSeedStudent(options, student) ==
  student.uniqname

makeSeed(options, student) ==
  IF Truthy(options, "consistent_randomization") THEN "common" ELSE student.uniqname

\* createRandomizedQuestion without its multiplicity assert.
assignQuestionSkinsNoAssert(self, question, student, sectionIndex, partIndex, questionSkins, rnd) ==
  Built([i \in 1..Len(questionSkins) |->
    AssignedQuestion(
      createStudentUuid(self.options, student,
        self.exam.exam_id \o "-q-" \o question.question_id, rnd \o <<"q", partIndex, i>>),
      self.exam, student, question, questionSkins[i], sectionIndex, partIndex)])

\* The assert and the map of createRandomizedQuestion, the skins being chosen.
assignQuestionSkins(self, question, student, sectionIndex, partIndex, questionSkins, rnd) ==
  IF ~(self.options.allow_duplicates \/ Len(questionSkins) = 1) THEN Threw
  ELSE FlatResults([i \in 1..Len(questionSkins) |->
         LET uuid == createStudentUuid(self.options, student,
                       self.exam.exam_id \o "-q-" \o question.question_id,
                       rnd \o <<"q", partIndex, i>>)
         IN IF uuid = THROWN THEN Threw
            ELSE Built(<<AssignedQuestion(uuid, self.exam, student, question,
                                          questionSkins[i], sectionIndex, partIndex)>>)])

\* `self` is the generator (this); rnd identifies the random draws of the call.
createRandomizedQuestion(self, question, student, sectionIndex, partIndex, sectionSkin, rnd) ==
  LET rand == IF Truthy(self.options, "choose_all") THEN CHOOSE_ALL
              ELSE createQuestionSkinRandomizer(makeSeed(self.options, student), self.exam, question)
      chosen == IF question.skin.component_kind = "chooser"
                THEN chooseSkins(question.skin, self.exam, student, rand)
                ELSE <<question.skin>>
  IN assignQuestionSkins(self, question, student, sectionIndex, partIndex,
       [i \in 1..Len(chosen) |-> createCompositeSkin(sectionSkin, chosen[i])], rnd)

\* The assert and the map of createRandomizedSection, the skins and the
\* questions being chosen.
assignSectionSkins(self, section, student, sectionIndex, sectionSkins, qs, rnd) ==
  IF ~(self.options.allow_duplicates \/ Len(sectionSkins) = 1) THEN Threw
  ELSE FlatResults([k \in 1..Len(sectionSkins) |->
         LET uuid == createStudentUuid(self.options, student,
                       self.exam.exam_id \o "-s-" \o section.section_id,
                       rnd \o <<"s", sectionIndex, k>>)
             questions == FlatResults([p \in 1..Len(qs) |->
                            createRandomizedQuestion(self, qs[p], student, sectionIndex, p - 1,
                              sectionSkins[k], rnd \o <<"s", sectionIndex, k>>)])
         IN IF uuid = THROWN \/ questions.threw THEN Threw
            ELSE Built(<<AssignedSection(uuid, section, sectionIndex, sectionSkins[k],
                                         questions.items)>>)])

\* The chosen questions are laid out last to first.
createRandomizedSectionReversed(self, section, student, sectionIndex, rnd) ==
  LET rand == IF Truthy(self.options, "choose_all") THEN CHOOSE_ALL
              ELSE createQuestionChoiceRandomizer(makeSeed(self.options, student), self.exam, section)
      skinRand == IF Truthy(self.options, "choose_all") THEN CHOOSE_ALL
                  ELSE createSectionSkinRandomizer(makeSeed(self.options, student), self.exam, section)
      qs == Flatten([c \in 1..Len(section.questions) |->
              chooseQuestions(section.questions[c], self.exam, student, rand)])
  IN assignSectionSkins(self, section, student, sectionIndex,
       IF section.skin.component_kind = "chooser"
         THEN chooseSkins(section.skin, self.exam, student, skinRand)
         ELSE <<section.skin>>,
       [p \in 1..Len(qs) |-> qs[Len(qs) + 1 - p]],
       rnd)

createRandomizedSection(self, section, student, sectionIndex, rnd) ==
  LET rand == IF Truthy(self.options, "choose_all") THEN CHOOSE_ALL
              ELSE createQuestionChoiceRandomizer(makeSeed(self.options, student), self.exam, section)
      skinRand == IF Truthy(self.options, "choose_all") THEN CHOOSE_ALL
                  ELSE createSectionSkinRandomizer(makeSeed(self.options, student), self.exam, section)
  IN assignSectionSkins(self, section, student, sectionIndex,
       IF section.skin.component_kind = "chooser"
         THEN chooseSkins(section.skin, self.exam, student, skinRand)
         ELSE <<section.skin>>,
       Flatten([c \in 1..Len(section.questions) |->
         chooseQuestions(section.questions[c], self.exam, student, rand)]),
       rnd)

\* ------------------------------------------------------ consistency checker
RECURSIVE PutAll(_,_,_)
\* items.forEach(x => map[id(x)] = x), ids[i] being the id of items[i]
PutAll(map, ids, items) ==
  IF items = <<>> THEN map
  ELSE PutAll((Head(ids) :> Head(items)) @@ map, Tail(ids), Tail(items))

RECURSIVE checkSectionStatsCountOnly(_,_)
\* The section table is kept, but no specification is compared.
checkSectionStatsCountOnly(stats, sections) ==
  IF sections = <<>> THEN [stats |-> stats, threw |-> FALSE]
  ELSE LET section == Head(sections)
           id == section.section_id
       IN IF id \in DOMAIN stats
          THEN checkSectionStatsCountOnly([stats EXCEPT ![id].n = @ + 1], Tail(sections))
          ELSE checkSectionStatsCountOnly((id :> [section |-> section, n |-> 1]) @@ stats,
                                          Tail(sections))

RECURSIVE checkSectionStats(_,_)
\* The forEach over sections of checkExam; stops at the first failed assert.
checkSectionStats(stats, sections) ==
  IF sections = <<>> THEN [stats |-> stats, threw |-> FALSE]
  ELSE LET section == Head(sections)
           id == section.section_id
       IN IF id \in DOMAIN stats
          THEN IF section.spec = stats[id].section.spec
               THEN checkSectionStats([stats EXCEPT ![id].n = @ + 1], Tail(sections))
               ELSE [stats |-> [stats EXCEPT ![id].n = @ + 1], threw |-> TRUE]
          ELSE checkSectionStats((id :> [section |-> section, n |-> 1]) @@ stats,
                                 Tail(sections))

RECURSIVE checkQuestionStatsNoCount(_,_)
\* A question id seen before is compared, but its count is left alone.
checkQuestionStatsNoCount(stats, questions) ==
  IF questions = <<>> THEN [stats |-> stats, threw |-> FALSE]
  ELSE LET question == Head(questions)
           id == question.question_id
       IN IF id \in DOMAIN stats
          THEN IF question.spec = stats[id].question.spec
               THEN checkQuestionStatsNoCount(stats, Tail(questions))
               ELSE [stats |-> stats, threw |-> TRUE]
          ELSE checkQuestionStatsNoCount((id :> [question |-> question, n |-> 1]) @@ stats,
                                         Tail(questions))

RECURSIVE checkQuestionStats(_,_)
\* The forEach over questions of checkExam; stops at the first failed assert.
checkQuestionStats(stats, questions) ==
  IF questions = <<>> THEN [stats |-> stats, threw |-> FALSE]
  ELSE LET question == Head(questions)
           id == question.question_id
       IN IF id \in DOMAIN stats
          THEN IF question.spec = stats[id].question.spec
               THEN checkQuestionStats([stats EXCEPT ![id].n = @ + 1], Tail(questions))
               ELSE [stats |-> [stats EXCEPT ![id].n = @ + 1], threw |-> TRUE]
          ELSE checkQuestionStats((id :> [question |-> question, n |-> 1]) @@ stats,
                                  Tail(questions))

\* The second half of checkExam (questions), reached when no section assert
\* failed; `self` already holds the section tables.
checkExamQuestions(self, questions, questionCheck) ==
  [self |-> [self EXCEPT
       !.questionsMap =
         PutAll(@, [i \in 1..Len(questions) |-> questions[i].question_id], questions),
       !.questionStatsMap = questionCheck.stats],
   threw |-> questionCheck.threw]

\* The first half of checkExam (sections).
checkExamSections(self, sections, questions, sectionCheck) ==
  LET afterSections ==
        [self EXCEPT
           !.sectionsMap =
             PutAll(@, [i \in 1..Len(sections) |-> sections[i].section_id], sections),
           !.sectionStatsMap = sectionCheck.stats]
  IN IF sectionCheck.threw THEN [self |-> afterSections, threw |-> TRUE]
     ELSE checkExamQuestions(afterSections, questions,
                             checkQuestionStats(self.questionStatsMap, questions))

\* checkExam(ae): the generator afterwards, and whether an assert failed.
checkExam(self, ae) ==
  LET sections == [i \in 1..Len(ae.assignedSections) |-> ae.assignedSections[i].section]
  IN checkExamSections(self, sections,
       Flatten([i \in 1..Len(ae.assignedSections) |->
         [j \in 1..Len(ae.assignedSections[i].assignedQuestions) |->
           ae.assignedSections[i].assignedQuestions[j].question]]),
       checkSectionStats(self.sectionStatsMap, sections))

\* ------------------------------------------------------------- generator
\* The fields of a freshly constructed ExamGenerator.
NewGenerator(exam, options) ==
  [ exam |-> exam,
    options |-> mergeOptions(options),
    assignedExams |-> <<>>,
    assignedExamsByUniqname |-> NoKeys,
    sectionsMap |-> NoKeys,
    questionsMap |-> NoKeys,
    sectionStatsMap |-> NoKeys,
    questionStatsMap |-> NoKeys ]

\* What createRandomizedExam hands back: the generator afterwards, whether it
\* threw, the exam it built (if it got that far) and why it threw.
ExamChecked(ae, checked) ==
  [self |-> checked.self, threw |-> checked.threw, built |-> <<ae>>,
   outcome |-> IF checked.threw THEN "drift" ELSE "ok"]

\* new AssignedExam(...) and this.checkExam(ae), the sections being built.
assembleExam(self, student, uuid, sections) ==
  IF sections.threw \/ uuid = THROWN
  THEN [self |-> self, threw |-> TRUE, built |-> <<>>, outcome |-> "multiplicity"]
  ELSE LET ae == AssignedExam(uuid, self.exam, student, sections.items,
                              self.options.allow_duplicates)
       IN ExamChecked(ae, checkExam(self, ae))

\* createRandomizedExam with its `rand` parameter given.
createRandomizedExamWith(self, student, rnd, rand) ==
  LET chosen == Flatten([c \in 1..Len(self.exam.sections) |->
                  chooseSections(self.exam.sections[c], self.exam, student, rand)])
  IN assembleExam(self, student,
       createStudentUuid(self.options, student, self.exam.exam_id, rnd \o <<"e">>),
       FlatResults([i \in 1..Len(chosen) |->
         createRandomizedSection(self, chosen[i], student, i - 1, rnd)]))

\* A section-choice randomizer that outlives one student: seeded once, from
\* the first student on record.
createRandomizedExamShared(self, student, rnd) ==
  createRandomizedExamWith(self, student, rnd,
    IF Truthy(self.options, "choose_all") THEN CHOOSE_ALL
    ELSE createSectionChoiceRandomizer(
           IF self.assignedExams = <<>> THEN makeSeed(self.options, student)
           ELSE makeSeed(self.options, self.assignedExams[1].student),
           self.exam))

createRandomizedExam(self, student, rnd) ==
  createRandomizedExamWith(self, student, rnd,
    IF Truthy(self.options, "choose_all") THEN CHOOSE_ALL
    ELSE createSectionChoiceRandomizer(makeSeed(self.options, student), self.exam))

Event(student, r, outcome) ==
  [student |-> student.uniqname, built |-> r.built, outcome |-> outcome]

\* The point-total assert ahead of the push: an exam with another total is
\* not recorded.
recordExamAfterAssert(student, r) ==
  IF r.threw
  THEN [self |-> r.self, threw |-> TRUE, event |-> Event(student, r, r.outcome)]
  ELSE LET ae == r.built[1]
           same == r.self.assignedExams = <<>>
                     \/ ae.pointsPossible = r.self.assignedExams[1].pointsPossible
       IN [self |-> IF same
                    THEN [r.self EXCEPT
                            !.assignedExams = Append(@, ae),
                            !.assignedExamsByUniqname = (student.uniqname :> ae) @@ @]
                    ELSE r.self,
           threw |-> ~same,
           event |-> Event(student, r, IF same THEN "ok" ELSE "points")]

\* The point-total assert compares the new exam with itself.
recordExamLast(student, r) ==
  IF r.threw
  THEN [self |-> r.self, threw |-> TRUE, event |-> Event(student, r, r.outcome)]
  ELSE [self |-> [r.self EXCEPT
                    !.assignedExams = Append(@, r.built[1]),
                    !.assignedExamsByUniqname = (student.uniqname :> r.built[1]) @@ @],
        threw |-> FALSE, event |-> Event(student, r, "ok")]

\* assignExam after createRandomizedExam returned r (or threw): the push, the
\* index by uniqname and the point-total assert.
recordExam(student, r) ==
  IF r.threw
  THEN [self |-> r.self, threw |-> TRUE, event |-> Event(student, r, r.outcome)]
  ELSE LET ae == r.built[1]
           pushed == [r.self EXCEPT
                        !.assignedExams = Append(@, ae),
                        !.assignedExamsByUniqname = (student.uniqname :> ae) @@ @]
           same == ae.pointsPossible = pushed.assignedExams[1].pointsPossible
       IN [self |-> pushed, threw |-> ~same,
           event |-> Event(student, r, IF same THEN "ok" ELSE "points")]

\* assignExam(student): the generator afterwards, whether the call threw,
\* and what happened.
assignExam(self, student, rnd) ==
  recordExam(student, createRandomizedExam(self, student, rnd))

PrependEvent(event, rest) ==
  [self |-> rest.self, threw |-> rest.threw, events |-> <<event>> \o rest.events]

RECURSIVE assignEach(_,_,_,_)
RECURSIVE assignRest(_,_,_,_)
\* students.forEach(s => this.assignExam(s)) from position i (1-based).
assignEach(self, students, rnd, i) ==
  IF i > Len(students) THEN [self |-> self, threw |-> FALSE, events |-> <<>>]
  ELSE assignRest(assignExam(self, students[i], <<rnd[1] + i - 1>>), students, rnd, i)

\* A throw of assignExam leaves the loop.
assignRest(r, students, rnd, i) ==
  IF r.threw THEN [self |-> r.self, threw |-> TRUE, events |-> <<r.event>>]
  ELSE PrependEvent(r.event, assignEach(r.self, students, rnd, i + 1))

RECURSIVE assignEachSkipping(_,_,_,_)
RECURSIVE assignRestSkipping(_,_,_,_)
\* A loop that skips the offending student and goes on.
assignEachSkipping(self, students, rnd, i) ==
  IF i > Len(students) THEN [self |-> self, threw |-> FALSE, events |-> <<>>]
  ELSE assignRestSkipping(assignExam(self, students[i], <<rnd[1] + i - 1>>), students, rnd, i)

assignRestSkipping(r, students, rnd, i) ==
  PrependEvent(r.event, assignEachSkipping(r.self, students, rnd, i + 1))

assignExamsSkipping(self, students, rnd) == assignEachSkipping(self, students, rnd, 1)

\* The roster is walked from its last student to its first.
assignExamsBackwards(self, students, rnd) ==
  assignEach(self, [i \in 1..Len(students) |-> students[Len(students) + 1 - i]], rnd, 1)

assignExams(self, students, rnd) == assignEach(self, students, rnd, 1)

\* ------------------------------------------------------------------ state
VARIABLES
  examIn,      \* the Exam handed to the constructor
  optionsIn,   \* the options object handed to the constructor
  ctor,        \* per generator: "none", "ok" (constructed), "threw"
  gens,        \* per generator: <<>> or <<its fields>>
  log,         \* per generator: what each assignExam invocation did, in order
  call,        \* per generator: the latest assignExam / assignExams call
  rngDraws,    \* calls so far that drew from uuid.v4's random source
  uuidCalls,   \* direct createStudentUuid calls: arguments and result
  utilCall     \* the latest call of an ExamUtils / Question operation and its outcome

vars == <<examIn, optionsIn, ctor, gens, log, call, rngDraws, uuidCalls, utilCall>>

Generators == {1, 2}

StrategyInputs ==
  {NoKeys} \cup {[uuid_strategy |-> s] : s \in {"plain", "uuidv4", "uuidv5"}}

NamespaceInputs ==
  {NoKeys} \cup {[uuidv5_namespace |-> n] : n \in {"", "fifteen-char-ns", "0123456789abcdef"}}

FlagInputs(key) == {NoKeys, [k \in {key} |-> TRUE]}

\* Every combination of the three flags, under the default strategy and
\* under uuidv4.
FlagOptionInputs ==
  { s @@ a @@ d @@ c :
      s \in {NoKeys, [uuid_strategy |-> "uuidv4"]},
      a \in FlagInputs("choose_all"),
      d \in FlagInputs("allow_duplicates"),
      c \in FlagInputs("consistent_randomization") }

\* Every combination of strategy and namespace.
UuidOptionCombos == {s @@ n : s \in StrategyInputs, n \in NamespaceInputs}

OptionInputs == FlagOptionInputs \cup UuidOptionCombos

Rosters == UNION {[1..n -> Students] : n \in 0..MaxRoster}

NoCall == [roster |-> <<>>, start |-> 0, threw |-> FALSE]

NoUtilCall == [op |-> "none"]

InitWith(exams, options) ==
  /\ examIn \in exams
  /\ optionsIn \in options
  /\ ctor = [g \in Generators |-> "none"]
  /\ gens = [g \in Generators |-> <<>>]
  /\ log = [g \in Generators |-> <<>>]
  /\ call = [g \in Generators |-> NoCall]
  /\ rngDraws = 0
  /\ uuidCalls = <<>>
  /\ utilCall = NoUtilCall

Init == InitWith(Exams, OptionInputs)

\* new ExamGenerator(exam, options)
Construct(g) ==
  /\ ctor[g] = "none"
  /\ IF verifyOptions(optionsIn)
     THEN /\ ctor' = [ctor EXCEPT ![g] = "ok"]
          /\ gens' = [gens EXCEPT ![g] = <<NewGenerator(examIn, optionsIn)>>]
     ELSE /\ ctor' = [ctor EXCEPT ![g] = "threw"]
          /\ gens' = gens
  /\ UNCHANGED <<examIn, optionsIn, log, call, rngDraws, uuidCalls, utilCall>>

\* Whether an assignExam invocation at random-source position n handed out a
\* value drawn from uuid.v4.
DrewAt(event, n) ==
  IF event.built # <<>> /\ event.built[1].uuid = uuidv4(<<n, "e">>) THEN 1 ELSE 0

\* gen.assignExam(student)
CallAssignExam(g, student, max) ==
  /\ gens[g] # <<>>
  /\ Len(log[g]) < max
  /\ \E r \in {assignExam(gens[g][1], student, <<rngDraws>>)} :
        /\ gens' = [gens EXCEPT ![g] = <<r.self>>]
        /\ log' = [log EXCEPT ![g] = Append(@, r.event)]
        /\ call' = [call EXCEPT ![g] =
                      [roster |-> <<student>>, start |-> Len(log[g]), threw |-> r.threw]]
        /\ rngDraws' = rngDraws + DrewAt(r.event, rngDraws)
  /\ UNCHANGED <<examIn, optionsIn, ctor, uuidCalls, utilCall>>

\* gen.assignExams(students)
CallAssignExams(g, students, max) ==
  /\ gens[g] # <<>>
  /\ Len(log[g]) + Len(students) <= max
  /\ \E r \in {assignExams(gens[g][1], students, <<rngDraws>>)} :
        /\ gens' = [gens EXCEPT ![g] = <<r.self>>]
        /\ log' = [log EXCEPT ![g] = @ \o r.events]
        /\ call' = [call EXCEPT ![g] =
                      [roster |-> students, start |-> Len(log[g]), threw |-> r.threw]]
        /\ rngDraws' = rngDraws +
             SumSeq([i \in 1..Len(r.events) |-> DrewAt(r.events[i], rngDraws + i - 1)])
  /\ UNCHANGED <<examIn, optionsIn, ctor, uuidCalls, utilCall>>

Next ==
  \/ Construct(1)
  \/ \E student \in Students : CallAssignExam(1, student, MaxAssigned)
  \/ \E students \in Rosters : CallAssignExams(1, students, MaxAssigned)

Spec == Init /\ [][Next]_vars

\* ---------------------------------------- two generators, side by side
\* The flag combinations under the default strategy, and each strategy that
\* needs no namespace on its own.
PairOptionInputs ==
  {o \in OptionInputs :
     /\ verifyOptions(o)
     /\ ~Has(o, "uuidv5_namespace")
     /\ Has(o, "uuid_strategy") => DOMAIN o = {"uuid_strategy"}}

InitPair == InitWith(Exams, PairOptionInputs)

NextPair ==
  \E g \in Generators :
    \/ Construct(g)
    \/ \E student \in Students : CallAssignExam(g, student, MaxPairAssigned)

SpecPair == InitPair /\ [][NextPair]_vars

\* -------------------------------------------- createStudentUuid on its own
UuidOptionInputs ==
  { [uuid_strategy |-> "plain"], [uuid_strategy |-> "uuidv4"], [uuid_strategy |-> "uuidv5"],
    [uuid_strategy |-> "uuidv5", uuidv5_namespace |-> "0123456789abcdef"] }

UuidStudents == {Student("ann", "Ann"), Student("ann-x", "Ann X"), Student("abc123", "Abc")}

UuidIds == {"y", "x-y", "examX", "examY"}

MaxUuidCalls == 2

InitUuid == InitWith({ExamSimple}, {NoKeys})

\* createStudentUuid(options, student, id)
CallCreateStudentUuid(options, student, id) ==
  /\ Len(uuidCalls) < MaxUuidCalls
  /\ \E uuid \in {createStudentUuid(options, student, id, <<rngDraws>>)} :
       /\ uuidCalls' = Append(uuidCalls,
            [options |-> options, uniqname |-> student.uniqname, id |-> id, uuid |-> uuid])
       /\ rngDraws' = rngDraws + (IF uuid = uuidv4(<<rngDraws>>) THEN 1 ELSE 0)
  /\ UNCHANGED <<examIn, optionsIn, ctor, gens, log, call, utilCall>>

NextUuid ==
  \E options \in UuidOptionInputs, student \in UuidStudents, id \in UuidIds :
    CallCreateStudentUuid(options, student, id)

SpecUuid == InitUuid /\ [][NextUuid]_vars

\* ------------------------------------------------- ExamUtils.loadCSVRoster
\* Data lines of a roster file.
MaxRows == 2

FieldValues == {"", "ann", "Ann B"}

HeaderInputs == {<<"uniqname", "name">>, <<"uniqname">>}

\* A line of one or two comma-separated fields.
LineInputs == UNION {[1..n -> FieldValues] : n \in 1..2}

RosterFiles ==
  [header : HeaderInputs, lines : UNION {[1..n -> LineInputs] : n \in 0..MaxRows}]

\* Papa.parse in header mode: a row object has a key for each header column
\* the line has a field for; further fields go to __parsed_extra.
ParseRow(header, line) ==
  LET row == [k \in {header[j] : j \in (1..Len(header)) \cap (1..Len(line))} |->
                line[CHOOSE j \in 1..Len(header) : header[j] = k]]
  IN IF Len(line) > Len(header)
     THEN ("__parsed_extra" :> SubSeq(line, Len(header) + 1, Len(line))) @@ row
     ELSE row

\* Papa.parse(text, {header: true, skipEmptyLines: true}).data
PapaParse(file) ==
  LET kept == SelectSeq(file.lines, LAMBDA line : line # <<"">>)
  IN [i \in 1..Len(kept) |-> ParseRow(file.header, kept[i])]

\* The two asserts of loadCSVRoster on the parsed rows: s.uniqname !== ""
\* and s.name !== "" (undefined !== "" is true).
checkRoster(students) ==
  IF \E i \in 1..Len(students) :
       \/ (Has(students[i], "uniqname") /\ students[i].uniqname = "")
       \/ (Has(students[i], "name") /\ students[i].name = "")
  THEN [threw |-> TRUE, students |-> <<>>]
  ELSE [threw |-> FALSE, students |-> students]

loadCSVRoster(file) == checkRoster(PapaParse(file))

InitUtil == InitWith({ExamSimple}, {NoKeys})

\* ExamUtils.loadCSVRoster(filename)
CallLoadCSVRoster(file) ==
  /\ \E r \in {loadCSVRoster(file)} :
       utilCall' = [op |-> "loadCSVRoster", file |-> file,
                    threw |-> r.threw, students |-> r.students]
  /\ UNCHANGED <<examIn, optionsIn, ctor, gens, log, call, rngDraws, uuidCalls>>

NextRoster == \E file \in RosterFiles : CallLoadCSVRoster(file)

SpecRoster == InitUtil /\ [][NextRoster]_vars

\* ------------------------- ExamUtils.saveExamSpecification / load...
\* A JavaScript value is [t |-> its kind, v |-> its content]: "null", "str",
\* "num", "regex" (v = <<source, flags>>), "arr" (v = the items) and "obj"
\* (v = the properties, in order, as [key, val] records).
JsNull == [t |-> "null", v |-> ""]

JsStr(string) == [t |-> "str", v |-> string]

JsNum(n) == [t |-> "num", v |-> n]

JsRegExp(source, flags) == [t |-> "regex", v |-> <<source, flags>>]

JsArr(items) == [t |-> "arr", v |-> items]

JsObj(props) == [t |-> "obj", v |-> props]

Prop(key, val) == [key |-> key, val |-> val]

SERIALIZED_REGEX == "examma_ray_serialized_regex"

\* Nesting depth of the specification values saved.
MaxDepth == 2

LeafValues == {JsNull, JsStr("a"), JsNum(1), JsRegExp("a+", "g")}

KeyInputs == {"k", SERIALIZED_REGEX}

RECURSIVE SpecValues(_)
\* Values nested at most d deep: arrays of one value or of two leaves, and
\* objects of one property.
SpecValues(d) ==
  IF d = 0 THEN LeafValues
  ELSE LET inner == SpecValues(d - 1)
       IN LeafValues
          \cup {JsArr(<<x>>) : x \in inner}
          \cup {JsArr(<<x, y>>) : x \in LeafValues, y \in LeafValues}
          \cup {JsObj(<<Prop(k, x)>>) : k \in KeyInputs, x \in inner}

\* The replacer of saveExamSpecification, applied to one value.
replacer(value) ==
  IF value.t = "regex"
  THEN JsObj(<<Prop(SERIALIZED_REGEX,
                    JsObj(<<Prop("source", JsStr(value.v[1])),
                            Prop("flags", JsStr(value.v[2]))>>))>>)
  ELSE value

RECURSIVE stringifyReplaced(_)
RECURSIVE stringify(_)
\* JSON.stringify(spec, replacer): the replacer is applied to a value before
\* its items or properties are serialized.  The result is the JSON document.
stringify(value) == stringifyReplaced(replacer(value))

stringifyReplaced(value) ==
  IF value.t = "arr"
    THEN JsArr([i \in 1..Len(value.v) |-> stringify(value.v[i])])
  ELSE IF value.t = "obj"
    THEN JsObj([i \in 1..Len(value.v) |-> Prop(value.v[i].key, stringify(value.v[i].val))])
  ELSE value

\* typeof value === "object"
TypeofObject(value) == value.t \in {"null", "arr", "obj", "regex"}

HasProp(value, key) ==
  value.t = "obj" /\ \E i \in 1..Len(value.v) : value.v[i].key = key

GetProp(value, key) ==
  value.v[CHOOSE i \in 1..Len(value.v) : value.v[i].key = key].val

\* String(x) of a property handed to new RegExp, undefined giving the default.
RegExpArg(value, key, default) ==
  IF HasProp(value, key) /\ GetProp(value, key).t = "str"
  THEN GetProp(value, key).v
  ELSE default

Thrown == [threw |-> TRUE, value |-> JsNull]

Returned(value) == [threw |-> FALSE, value |-> value]

\* The reviver of loadExamSpecification, applied to one value; reading a
\* property of null throws a TypeError.
reviver(value) ==
  IF ~TypeofObject(value) THEN Returned(value)
  ELSE IF value.t = "null" THEN Thrown
  ELSE IF ~HasProp(value, SERIALIZED_REGEX) THEN Returned(value)
  ELSE IF ~TypeofObject(GetProp(value, SERIALIZED_REGEX)) THEN Returned(value)
  ELSE IF GetProp(value, SERIALIZED_REGEX).t = "null" THEN Thrown
  ELSE Returned(JsRegExp(RegExpArg(GetProp(value, SERIALIZED_REGEX), "source", "(?:)"),
                         RegExpArg(GetProp(value, SERIALIZED_REGEX), "flags", "")))

\* The reviver applied to a holder whose items or properties were revived.
reviveHolder(value, revived) ==
  IF \E i \in 1..Len(revived) : revived[i].threw THEN Thrown
  ELSE IF value.t = "arr"
    THEN reviver(JsArr([i \in 1..Len(revived) |-> revived[i].value]))
  ELSE reviver(JsObj([i \in 1..Len(revived) |-> Prop(value.v[i].key, revived[i].value)]))

RECURSIVE parse(_)
\* JSON.parse(text, reviver): items and properties are revived before their
\* holder.
parse(json) ==
  IF json.t = "arr"
    THEN reviveHolder(json, [i \in 1..Len(json.v) |-> parse(json.v[i])])
  ELSE IF json.t = "obj"
    THEN reviveHolder(json, [i \in 1..Len(json.v) |-> parse(json.v[i].val)])
  ELSE reviver(json)

\* ExamUtils.saveExamSpecification(filename, spec)
CallSaveExamSpecification(spec) ==
  /\ utilCall.op = "none"
  /\ \E file \in {stringify(spec)} :
       utilCall' = [op |-> "saveExamSpecification", spec |-> spec, file |-> file]
  /\ UNCHANGED <<examIn, optionsIn, ctor, gens, log, call, rngDraws, uuidCalls>>

\* ExamUtils.loadExamSpecification(filename) of the file saved before
CallLoadExamSpecification ==
  /\ utilCall.op = "saveExamSpecification"
  /\ \E r \in {parse(utilCall.file)} :
       utilCall' = [op |-> "loadExamSpecification", spec |-> utilCall.spec,
                    file |-> utilCall.file, threw |-> r.threw, loaded |-> r.value]
  /\ UNCHANGED <<examIn, optionsIn, ctor, gens, log, call, rngDraws, uuidCalls>>

NextRoundTrip ==
  \/ \E spec \in SpecValues(MaxDepth) : CallSaveExamSpecification(spec)
  \/ CallLoadExamSpecification

SpecRoundTrip == InitUtil /\ [][NextRoundTrip]_vars

\* ---------------------------------- ExamUtils: file input and output
\* Files in the directory of submissions.
MaxFiles == 3

\* A file of the submitted directory: unreadable, not JSON, or an
\* ExamSubmission of a student and an exam uuid.
SubmittedFileInputs ==
  { [kind |-> "unreadable", uniqname |-> "", uuid |-> ""],
    [kind |-> "malformed", uniqname |-> "", uuid |-> ""],
    [kind |-> "submission", uniqname |-> "ann", uuid |-> "u1"],
    [kind |-> "submission", uniqname |-> "bob", uuid |-> "u2"] }

\* The manifest files that exist in the manifest directory.
ManifestFiles == {"ann-u1.json"}

\* loadExamAnswers: JSON.parse(readFileSync(filename, "utf8"))
loadExamAnswers(file) ==
  IF file.kind = "submission"
  THEN [threw |-> FALSE, uniqname |-> file.uniqname, uuid |-> file.uuid]
  ELSE [threw |-> TRUE, uniqname |-> "", uuid |-> ""]

\* fillManifest(manifest, submitted), the manifest being read from
\* <uniqname>-<uuid>.json of the manifest directory.
fillFromManifest(submitted) ==
  IF submitted.threw THEN submitted
  ELSE IF (submitted.uniqname \o "-" \o submitted.uuid \o ".json") \in ManifestFiles
    THEN submitted
    ELSE [threw |-> TRUE, uniqname |-> "", uuid |-> ""]

loadTrustedSubmission(file) == fillFromManifest(loadExamAnswers(file))

RECURSIVE collectTrusted(_)
\* The forEach of loadTrustedSubmissions: a file whose load throws is logged
\* and left out.
collectTrusted(results) ==
  IF results = <<>> THEN <<>>
  ELSE IF Head(results).threw THEN collectTrusted(Tail(results))
  ELSE <<Head(results)>> \o collectTrusted(Tail(results))

\* loadTrustedSubmissions; readdirSync throws when there is no directory.
loadTrustedSubmissions(exists, files) ==
  IF ~exists THEN [threw |-> TRUE, trusted |-> <<>>]
  ELSE [threw |-> FALSE,
        trusted |-> collectTrusted([i \in 1..Len(files) |-> loadTrustedSubmission(files[i])])]

\* What the file system does to the calls of writeFrontendJS: mkdirSync,
\* require.resolve ("ok", "MODULE_NOT_FOUND" or another error) and the three
\* places copyFileSync may copy from.
FrontendInputs ==
  [mkdir : BOOLEAN, resolve : {"ok", "MODULE_NOT_FOUND", "EACCES"},
   resolved : BOOLEAN, node_modules : BOOLEAN, dist : BOOLEAN]

\* writeFrontendJS: whether it threw and whether the bundle was copied.
writeFrontendJS(fs) ==
  IF ~fs.mkdir THEN [threw |-> TRUE, copied |-> FALSE]
  ELSE IF fs.resolve = "ok" /\ fs.resolved THEN [threw |-> FALSE, copied |-> TRUE]
  ELSE IF fs.resolve = "MODULE_NOT_FOUND"
    THEN [threw |-> FALSE, copied |-> fs.node_modules \/ fs.dist]
  ELSE [threw |-> TRUE, copied |-> FALSE]

MediaInputs == [mkdir : BOOLEAN, ncp : BOOLEAN]

\* copyFrontendMedia: ncp reports an error to a callback that logs it.
copyFrontendMedia(fs) ==
  IF ~fs.mkdir THEN [threw |-> TRUE, copied |-> FALSE]
  ELSE [threw |-> FALSE, copied |-> fs.ncp]

\* ExamUtils.loadTrustedSubmissions(manifestDirectory, submittedDirectory)
CallLoadTrustedSubmissions(exists, files) ==
  /\ \E r \in {loadTrustedSubmissions(exists, files)} :
       utilCall' = [op |-> "loadTrustedSubmissions", exists |-> exists, files |-> files,
                    threw |-> r.threw, trusted |-> r.trusted]
  /\ UNCHANGED <<examIn, optionsIn, ctor, gens, log, call, rngDraws, uuidCalls>>

\* writeFrontendJS(outDir, filename)
CallWriteFrontendJS(fs) ==
  /\ \E r \in {writeFrontendJS(fs)} :
       utilCall' = [op |-> "writeFrontendJS", fs |-> fs,
                    threw |-> r.threw, copied |-> r.copied]
  /\ UNCHANGED <<examIn, optionsIn, ctor, gens, log, call, rngDraws, uuidCalls>>

\* copyFrontendMedia(media_source_dir, frontend_media_dir)
CallCopyFrontendMedia(fs) ==
  /\ \E r \in {copyFrontendMedia(fs)} :
       utilCall' = [op |-> "copyFrontendMedia", fs |-> fs,
                    threw |-> r.threw, copied |-> r.copied]
  /\ UNCHANGED <<examIn, optionsIn, ctor, gens, log, call, rngDraws, uuidCalls>>

NextIO ==
  \/ \E exists \in BOOLEAN,
        files \in UNION {[1..n -> SubmittedFileInputs] : n \in 0..MaxFiles} :
       CallLoadTrustedSubmissions(exists, files)
  \/ \E fs \in FrontendInputs : CallWriteFrontendJS(fs)
  \/ \E fs \in MediaInputs : CallCopyFrontendMedia(fs)

SpecIO == InitUtil /\ [][NextIO]_vars

\* --------------------------------------------- ExamGenerator.writeAll
\* Students processed before and between writeAll calls.
MaxWritten == 3

\* ex.createManifest(): what the manifest records of an assigned exam.
createManifest(ex) ==
  [ exam_id |-> ex.exam_id, student |-> ex.student, uuid |-> ex.uuid,
    pointsPossible |-> ex.pointsPossible,
    sections |-> [k \in 1..Len(ex.assignedSections) |->
                    [ uuid |-> ex.assignedSections[k].uuid,
                      section_id |-> ex.assignedSections[k].section.section_id ]] ]

\* this.renderer.renderAll(ex, frontend_js_path): the page of an exam.
renderAll(ex, frontend_js_path) ==
  [html |-> "exam", uuid |-> ex.uuid, uniqname |-> ex.student.uniqname,
   frontend_js_path |-> frontend_js_path]

\* a.localeCompare(b) < 0 on uniqnames.
LocaleBefore(a, b) ==
  LET rank == [u \in {"ann", "bob", "cat"} |->
                 CASE u = "ann" -> 1 [] u = "bob" -> 2 [] OTHER -> 3]
  IN rank[a] < rank[b]

\* One step of the stable sort by uniqname: item goes behind every entry that
\* does not compare after it.
InsertByUniqname(sorted, item) ==
  LET behind == {k \in 1..Len(sorted) :
                   ~LocaleBefore(item.manifest.student.uniqname,
                                 sorted[k].manifest.student.uniqname)}
      n == Cardinality(behind)
  IN SubSeq(sorted, 1, n) \o <<item>> \o SubSeq(sorted, n + 1, Len(sorted))

RECURSIVE SortByUniqnameRec(_)
SortByUniqnameRec(items) ==
  IF items = <<>> THEN <<>>
  ELSE InsertByUniqname(SortByUniqnameRec(SubSeq(items, 1, Len(items) - 1)),
                        items[Len(items)])

\* The manifests sorted on their own, the pages left in assignment order.
SortManifestsOnly(items) ==
  [i \in 1..Len(items) |->
    [ manifest |-> SortByUniqnameRec(items)[i].manifest,
      renderedHtml |-> items[i].renderedHtml ]]

RECURSIVE SortByUniqname(_)
\* toWrite.sort((a, b) => a.manifest.student.uniqname.localeCompare(...))
SortByUniqname(items) ==
  IF items = <<>> THEN <<>>
  ELSE InsertByUniqname(SortByUniqname(SubSeq(items, 1, Len(items) - 1)),
                        items[Len(items)])

filenameBase(manifest) == manifest.student.uniqname \o "-" \o manifest.uuid

RECURSIVE writeFiles(_,_)
\* writeFileSync per entry, in order: a later write to a name replaces the
\* earlier file.
writeFiles(files, toWrite) ==
  IF toWrite = <<>> THEN files
  ELSE writeFiles(
         ((filenameBase(Head(toWrite).manifest) \o ".json") :> Head(toWrite).manifest)
           @@ ((filenameBase(Head(toWrite).manifest) \o ".html") :> Head(toWrite).renderedHtml)
           @@ files,
         Tail(toWrite))

\* The second half of writeAll, toWrite being sorted: the list of file names
\* and the files of the manifest and exam directories.
writeSorted(toWrite) ==
  [ filenames |-> [i \in 1..Len(toWrite) |->
                     << toWrite[i].manifest.student.uniqname,
                        filenameBase(toWrite[i].manifest) >>],
    toWrite |-> toWrite,
    files |-> writeFiles(NoKeys, toWrite) ]

\* writeAll: createManifests, renderExams, pair them, sort, write.
writeAll(self) ==
  writeSorted(SortByUniqname(
    [i \in 1..Len(self.assignedExams) |->
      [ manifest |-> createManifest(self.assignedExams[i]),
        renderedHtml |-> renderAll(self.assignedExams[i], self.options.frontend_js_path) ]]))

\* loadTrustedSubmission: the manifest file it opens for a submission.
manifestFilename(submitted) ==
  submitted.student.uniqname \o "-" \o submitted.uuid \o ".json"

WriteOptionInputs ==
  { NoKeys, [uuid_strategy |-> "uuidv4"], [choose_all |-> TRUE, allow_duplicates |-> TRUE] }

InitWrite == InitWith(Exams, WriteOptionInputs)

\* gen.writeAll()
CallWriteAll(g) ==
  /\ gens[g] # <<>>
  /\ \E out \in {writeAll(gens[g][1])} :
       utilCall' = [op |-> "writeAll", assignedExams |-> gens[g][1].assignedExams,
                    out |-> out]
  /\ UNCHANGED <<examIn, optionsIn, ctor, gens, log, call, rngDraws, uuidCalls>>

NextWrite ==
  \/ Construct(1)
  \/ \E student \in Students : CallAssignExam(1, student, MaxWritten)
  \/ CallWriteAll(1)

SpecWrite == InitWrite /\ [][NextWrite]_vars

\* ------------------------------------------------- SimpleMCGrader.grade
\* Choices of a question are numbered 0..MaxChoice; a submission selects at
\* most MaxSelected of them; a question is worth up to MaxPoints.
MaxChoice == 2
MaxSelected == 2
MaxPoints == 2

\* A multiple-choice submission: BLANK_SUBMISSION or the selected indices.
BLANK_MC == [blank |-> TRUE, selected |-> <<>>]

MCSubmissions ==
  {BLANK_MC} \cup
  UNION { {[blank |-> FALSE, selected |-> sel] : sel \in [1..n -> 0..MaxChoice]}
            : n \in 0..MaxSelected }

AssignedMCQuestions ==
  { [question |-> [pointsPossible |-> points], submission |-> sub]
      : points \in 0..MaxPoints, sub \in MCSubmissions }

\* A grader that takes correctIndex as the 1-based position of the answer.
gradeOneBased(correctIndex, aq) ==
  IF aq.submission.blank \/ Len(aq.submission.selected) = 0
  THEN [threw |-> FALSE, returned |-> <<0>>]
  ELSE IF ~(Len(aq.submission.selected) <= 1)
       THEN [threw |-> TRUE, returned |-> <<>>]
       ELSE [threw |-> FALSE,
             returned |-> << IF aq.submission.selected[1] + 1 = correctIndex
                             THEN aq.question.pointsPossible ELSE 0 >>]

\* new SimpleMCGrader(correctIndex).grade(aq): whether the assert threw, and
\* the score returned otherwise.
grade(correctIndex, aq) ==
  IF aq.submission.blank \/ Len(aq.submission.selected) = 0
  THEN [threw |-> FALSE, returned |-> <<0>>]
  ELSE IF ~(Len(aq.submission.selected) <= 1)
       THEN [threw |-> TRUE, returned |-> <<>>]
       ELSE [threw |-> FALSE,
             returned |-> << IF aq.submission.selected[1] = correctIndex
                             THEN aq.question.pointsPossible ELSE 0 >>]

CallGrade(correctIndex, aq) ==
  /\ \E r \in {grade(correctIndex, aq)} :
       utilCall' = [op |-> "grade", correctIndex |-> correctIndex, aq |-> aq,
                    threw |-> r.threw, returned |-> r.returned]
  /\ UNCHANGED <<examIn, optionsIn, ctor, gens, log, call, rngDraws, uuidCalls>>

NextGrade ==
  \E correctIndex \in 0..MaxChoice, aq \in AssignedMCQuestions : CallGrade(correctIndex, aq)

SpecGrade == InitUtil /\ [][NextGrade]_vars

\* ------------------------------------------------------- PARSONS_PARSER
\* Drop items per drop list in the inputs.
MaxItems == 2

\* A raw submission is null, undefined or a text; a text is described by
\* whether trim() leaves it empty and by what JSON.parse makes of it: <<>> for
\* a SyntaxError, else the parsed value.
RawNull == [t |-> "null", blank |-> FALSE, parsed |-> <<>>]

RawUndefined == [t |-> "undefined", blank |-> FALSE, parsed |-> <<>>]

RawText(blank, parsed) == [t |-> "text", blank |-> blank, parsed |-> parsed]

DropItem(id, children) ==
  JsObj(id \o children)

\* Drop items as JSON.parse can produce them: not an object at all, with or
\* without a string id, with or without an array of valid children.
DropItemInputs ==
  LET a == <<Prop("id", JsStr("a"))>>
      one == <<Prop("id", JsNum(1))>>
      kids(children) == <<Prop("children", children)>>
      nested == JsArr(<<JsArr(<<JsObj(<<Prop("id", JsStr("b"))>>)>>)>>)
      nestedNull == JsArr(<<JsArr(<<JsNull>>)>>)
  IN { JsNull, JsNum(1),
       DropItem(<<>>, <<>>), DropItem(a, <<>>), DropItem(one, <<>>),
       DropItem(<<>>, kids(JsArr(<<>>))),
       DropItem(a, kids(JsArr(<<JsStr("x")>>))),
       DropItem(a, kids(nested)),
       DropItem(a, kids(JsArr(<<JsNum(3)>>))),
       DropItem(a, kids(JsStr("x"))),
       DropItem(one, kids(JsArr(<<JsStr("x")>>))),
       DropItem(one, kids(nestedNull)) }

ElemInputs ==
  {JsStr("s"), JsNum(1)}
    \cup UNION { {JsArr(items) : items \in [1..n -> DropItemInputs]} : n \in 0..MaxItems }

ParsedInputs ==
  {JsNull, JsNum(1), JsStr("s"), JsObj(<<>>), JsArr(<<>>)}
    \cup {JsArr(<<elem>>) : elem \in ElemInputs}
    \cup {JsArr(<<JsNum(1), elem>>) : elem \in ElemInputs}

RawInputs ==
  {RawNull, RawUndefined, RawText(TRUE, <<>>), RawText(FALSE, <<>>)}
    \cup {RawText(FALSE, <<value>>) : value \in ParsedInputs}

RECURSIVE isValidParsonsSubmission(_)
RECURSIVE everyElem(_,_)
RECURSIVE everyDrop(_,_)
RECURSIVE everyChild(_,_)
\* isValidParsonsSubmission answers "true" or "false", or "TypeError" where
\* it reads a property of null.
\* e => typeof e === "string" || isValidParsonsSubmission(e)
validChild(e) == IF e.t = "str" THEN "true" ELSE isValidParsonsSubmission(e)

\* d.children.every(...), from position i, stopping at the first failure.
everyChild(children, i) ==
  IF i > Len(children) THEN "true"
  ELSE LET valid == validChild(children[i])
       IN IF valid = "true" THEN everyChild(children, i + 1) ELSE valid

\* d => typeof d.id === "string" || Array.isArray(d.children) && ...
validDrop(d) ==
  IF d.t = "null" THEN "TypeError"
  ELSE IF HasProp(d, "id") /\ GetProp(d, "id").t = "str" THEN "true"
  ELSE IF HasProp(d, "children") /\ GetProp(d, "children").t = "arr"
       THEN everyChild(GetProp(d, "children").v, 1)
       ELSE "false"

\* elem.every(d => ...), from position i.
everyDrop(items, i) ==
  IF i > Len(items) THEN "true"
  ELSE LET valid == validDrop(items[i])
       IN IF valid = "true" THEN everyDrop(items, i + 1) ELSE valid

\* elem => typeof elem === "string" || Array.isArray(elem) && elem.every(...)
validElem(elem) ==
  IF elem.t = "str" THEN "true"
  ELSE IF elem.t = "arr" THEN everyDrop(elem.v, 1) ELSE "false"

\* obj.every(elem => ...), from position i.
everyElem(elems, i) ==
  IF i > Len(elems) THEN "true"
  ELSE LET valid == validElem(elems[i])
       IN IF valid = "true" THEN everyElem(elems, i + 1) ELSE valid

\* A validator that asks of every drop item a string id and, where children
\* are present, valid children.
isValidParsonsSubmissionStrict(obj) ==
  LET RECURSIVE strict(_)
      strict(value) ==
        /\ value.t = "arr"
        /\ \A k \in 1..Len(value.v) :
             \/ value.v[k].t = "str"
             \/ /\ value.v[k].t = "arr"
                /\ \A j \in 1..Len(value.v[k].v) :
                     LET d == value.v[k].v[j]
                     IN /\ HasProp(d, "id") /\ GetProp(d, "id").t = "str"
                        /\ HasProp(d, "children") => strict(GetProp(d, "children"))
  IN IF strict(obj) THEN "true" ELSE "false"

isValidParsonsSubmission(obj) ==
  IF obj.t = "arr" THEN everyElem(obj.v, 1) ELSE "false"

ParserResult(threw, kind, value) == [threw |-> threw, kind |-> kind, value |-> value]

\* What PARSONS_PARSER does with the answer of the validator: a TypeError is
\* not a SyntaxError and is thrown on.
parserOutcome(valid, parsed) ==
  IF valid = "TypeError" THEN ParserResult(TRUE, "none", <<>>)
  ELSE IF valid = "true"
       THEN IF Len(parsed.v) > 0 THEN ParserResult(FALSE, "value", <<parsed>>)
            ELSE ParserResult(FALSE, "BLANK_SUBMISSION", <<>>)
       ELSE ParserResult(FALSE, "MALFORMED_SUBMISSION", <<>>)

PARSONS_PARSER(rawSubmission) ==
  IF rawSubmission.t \in {"undefined", "null"} \/ rawSubmission.blank
  THEN ParserResult(FALSE, "BLANK_SUBMISSION", <<>>)
  ELSE IF rawSubmission.parsed = <<>>
       THEN ParserResult(FALSE, "MALFORMED_SUBMISSION", <<>>)
       ELSE parserOutcome(isValidParsonsSubmission(rawSubmission.parsed[1]),
                          rawSubmission.parsed[1])

CallParsonsParser(rawSubmission) ==
  /\ \E r \in {PARSONS_PARSER(rawSubmission)} :
       utilCall' = [op |-> "PARSONS_PARSER", rawSubmission |-> rawSubmission,
                    threw |-> r.threw, kind |-> r.kind, value |-> r.value]
  /\ UNCHANGED <<examIn, optionsIn, ctor, gens, log, call, rngDraws, uuidCalls>>

NextParsons == \E rawSubmission \in RawInputs : CallParsonsParser(rawSubmission)

SpecParsons == InitUtil /\ [][NextParsons]_vars

\* ------------- ExamUtils.createGradingAssignments / rechunkGradingAssignments
\* Groups per input assignment (and assigned questions per call), input
\* assignments per call, and the largest numChunks tried.
MaxGroups == 2
MaxAssns == 2
MaxChunks == 3

\* A JavaScript number as far as these functions look at it: an integer n, or
\* the non-integer n + 1/2.
Integer(n) == [isInteger |-> TRUE, floor |-> n]

NumChunksInputs == {Integer(n) : n \in -1..MaxChunks} \cup {[isInteger |-> FALSE, floor |-> 1]}

\* stringify_response(aq.submission)
stringify_response(submission) == "json:" \o submission

AssignedQuestionInputs ==
  { [ uuid |-> uuid, exam |-> [exam_id |-> "e1"], question |-> [question_id |-> "q1"],
      student |-> [uniqname |-> "ann", name |-> "Ann"],
      skin |-> [replacements |-> "none"], submission |-> "0" ]
      : uuid \in {"u1", "u2"} }

\* The group createGradingAssignments makes of one assigned question.
GroupOf(aq, name) ==
  [ submissions |-> << [ question_uuid |-> aq.uuid,
                         skin_replacements |-> aq.skin.replacements,
                         student |-> aq.student,
                         response |-> stringify_response(aq.submission) ] >>,
    name |-> name,
    representative_index |-> 0 ]

SeqsUpTo(S, n) == UNION { [1..k -> S] : k \in 0..n }

GroupInputs == { GroupOf(aq, "old") : aq \in AssignedQuestionInputs }

\* Assignments of exam e1 and question q1 with any groups, and one each of
\* another exam and of another question.
AssnInputs ==
  { [exam_id |-> "e1", question_id |-> "q1", groups |-> groups]
      : groups \in SeqsUpTo(GroupInputs, MaxGroups) }
  \cup
  { [exam_id |-> ids[1], question_id |-> ids[2],
     groups |-> <<GroupOf(aq, "old")>>]
      : ids \in {<<"e2", "q1">>, <<"e1", "q2">>},
        aq \in {a \in AssignedQuestionInputs : a.uuid = "u1"} }

\* The lists of assignments handed to rechunkGradingAssignments: empty, or
\* headed by an assignment of exam e1 and question q1.
AssnsInputs ==
  { <<>> } \cup
  { <<first>> \o rest
      : first \in {a \in AssnInputs : a.exam_id = "e1" /\ a.question_id = "q1"},
        rest \in SeqsUpTo(AssnInputs, MaxAssns - 1) }

Thrown25 == [threw |-> TRUE, assns |-> <<>>]

\* Math.ceil(total / numChunks), numChunks an integer: a finite integer,
\* Infinity (total > 0, numChunks = 0) or NaN (0 / 0).
Finite(n) == [kind |-> "finite", v |-> n]

\* Math.floor in the place of Math.ceil.
MathFloorDiv(total, numChunks) ==
  IF numChunks = 0
  THEN [kind |-> IF total = 0 THEN "NaN" ELSE "Infinity", v |-> 0]
  ELSE IF numChunks > 0 THEN Finite(total \div numChunks)
       ELSE Finite(-((total + (-numChunks) - 1) \div (-numChunks)))

MathCeilDiv(total, numChunks) ==
  IF numChunks = 0
  THEN [kind |-> IF total = 0 THEN "NaN" ELSE "Infinity", v |-> 0]
  ELSE IF numChunks > 0 THEN Finite((total + numChunks - 1) \div numChunks)
       ELSE Finite(-(total \div (-numChunks)))

RECURSIVE slices(_,_)
\* x.slice(start, start + chunkSize) for start = 0, chunkSize, ...
slices(x, chunkSize) ==
  IF x = <<>> THEN <<>>
  ELSE IF Len(x) <= chunkSize THEN <<x>>
  ELSE <<SubSeq(x, 1, chunkSize)>> \o slices(SubSeq(x, chunkSize + 1, Len(x)), chunkSize)

\* A chunk that leaves out a last, shorter slice.
chunkWholeOnly(x, chunkSize) ==
  IF chunkSize.kind = "NaN" THEN [threw |-> TRUE, chunks |-> <<>>]
  ELSE IF chunkSize.kind = "Infinity"
  THEN [threw |-> FALSE, chunks |-> IF x = <<>> THEN <<>> ELSE <<x>>]
  ELSE IF chunkSize.v < 1 THEN [threw |-> TRUE, chunks |-> <<>>]
  ELSE [threw |-> FALSE,
        chunks |-> SelectSeq(slices(x, chunkSize.v), LAMBDA c : Len(c) = chunkSize.v)]

\* chunk(x, chunkSize) of simple-statistics: throws unless chunkSize is an
\* integer of at least 1 (Infinity passes both tests).
chunk(x, chunkSize) ==
  IF chunkSize.kind = "NaN" THEN [threw |-> TRUE, chunks |-> <<>>]
  ELSE IF chunkSize.kind = "Infinity"
  THEN [threw |-> FALSE, chunks |-> IF x = <<>> THEN <<>> ELSE <<x>>]
  ELSE IF chunkSize.v < 1 THEN [threw |-> TRUE, chunks |-> <<>>]
  ELSE [threw |-> FALSE, chunks |-> slices(x, chunkSize.v)]

\* getAssnIds: whether every assignment has the ids of the first.
sameAssnIds(assns) ==
  /\ \A k \in 1..Len(assns) : assns[k].exam_id = assns[1].exam_id
  /\ \A k \in 1..Len(assns) : assns[k].question_id = assns[1].question_id

RECURSIVE flatGroups(_)
\* assns.flatMap(assn => assn.groups)
flatGroups(assns) ==
  IF assns = <<>> THEN <<>> ELSE Head(assns).groups \o flatGroups(Tail(assns))

\* groups.forEach((group, i) => group.name = `group_${i}`)
renameGroups(groups) ==
  [i \in 1..Len(groups) |-> [groups[i] EXCEPT !.name = "group_" \o ToString(i - 1)]]

\* The last lines of rechunkGradingAssignments: the chunks as assignments.
chunksToAssns(chunked, exam_id, question_id) ==
  IF chunked.threw THEN Thrown25
  ELSE [threw |-> FALSE,
        assns |-> [i \in 1..Len(chunked.chunks) |->
                     [exam_id |-> exam_id, question_id |-> question_id,
                      groups |-> chunked.chunks[i]]]]

\* The body of rechunkGradingAssignments after its asserts.
rechunkGroups(groups, numChunks, exam_id, question_id) ==
  chunksToAssns(chunk(groups, MathCeilDiv(Len(groups), numChunks)), exam_id, question_id)

rechunkGradingAssignments(assns, numChunks) ==
  IF ~(Len(assns) > 0) THEN Thrown25
  ELSE IF ~numChunks.isInteger THEN Thrown25
  ELSE IF ~sameAssnIds(assns) THEN Thrown25
  ELSE rechunkGroups(renameGroups(flatGroups(assns)), numChunks.floor,
                     assns[1].exam_id, assns[1].question_id)

createGradingAssignments(aqs, numChunks) ==
  IF ~(Len(aqs) > 0) THEN Thrown25
  ELSE rechunkGradingAssignments(
         << [ exam_id |-> aqs[1].exam.exam_id,
              question_id |-> aqs[1].question.question_id,
              groups |-> [i \in 1..Len(aqs) |->
                            GroupOf(aqs[i], "group_" \o ToString(i - 1))] ] >>,
         numChunks)

\* A call about to be made: its function and its arguments.
PendingCalls ==
  { [op |-> "pending", fn |-> "rechunkGradingAssignments", assns |-> assns,
     aqs |-> <<>>, numChunks |-> numChunks]
      : assns \in AssnsInputs, numChunks \in NumChunksInputs }
  \cup
  { [op |-> "pending", fn |-> "createGradingAssignments", assns |-> <<>>,
     aqs |-> aqs, numChunks |-> numChunks]
      : aqs \in SeqsUpTo(AssignedQuestionInputs, MaxGroups), numChunks \in NumChunksInputs }

InitChunks ==
  /\ examIn = ExamSimple
  /\ optionsIn = NoKeys
  /\ ctor = [g \in Generators |-> "none"]
  /\ gens = [g \in Generators |-> <<>>]
  /\ log = [g \in Generators |-> <<>>]
  /\ call = [g \in Generators |-> NoCall]
  /\ rngDraws = 0
  /\ uuidCalls = <<>>
  /\ utilCall \in PendingCalls

CallRechunkGradingAssignments ==
  /\ utilCall.op = "pending"
  /\ utilCall.fn = "rechunkGradingAssignments"
  /\ \E r \in {rechunkGradingAssignments(utilCall.assns, utilCall.numChunks)} :
       utilCall' = [op |-> "rechunkGradingAssignments", assns |-> utilCall.assns,
                    numChunks |-> utilCall.numChunks, threw |-> r.threw,
                    returned |-> r.assns]
  /\ UNCHANGED <<examIn, optionsIn, ctor, gens, log, call, rngDraws, uuidCalls>>

CallCreateGradingAssignments ==
  /\ utilCall.op = "pending"
  /\ utilCall.fn = "createGradingAssignments"
  /\ \E r \in {createGradingAssignments(utilCall.aqs, utilCall.numChunks)} :
       utilCall' = [op |-> "createGradingAssignments", aqs |-> utilCall.aqs,
                    numChunks |-> utilCall.numChunks, threw |-> r.threw,
                    returned |-> r.assns]
  /\ UNCHANGED <<examIn, optionsIn, ctor, gens, log, call, rngDraws, uuidCalls>>

NextChunks == CallRechunkGradingAssignments \/ CallCreateGradingAssignments

SpecChunks == InitChunks /\ [][NextChunks]_vars

\* ------------------------------------------------------------ properties
Constructed(g) == gens[g] # <<>>

\* The events of generator g that carry a built exam / that returned.
BuiltAt(g) == {i \in 1..Len(log[g]) : log[g][i].built # <<>>}

ReturnedAt(g) == {i \in 1..Len(log[g]) : log[g][i].outcome = "ok"}

ExamAt(g, i) == log[g][i].built[1]

\* All (section, question) positions of an assigned exam.
QuestionsOf(ae) ==
  UNION {{<<k, p>> : p \in 1..Len(ae.assignedSections[k].assignedQuestions)} :
           k \in 1..Len(ae.assignedSections)}

QuestionAt(ae, kp) == ae.assignedSections[kp[1]].assignedQuestions[kp[2]]

\* C1: every assignExam call that returned produced an exam whose
\* pointsPossible equals that of assignedExams[0]; an exam with another total
\* makes the call throw.
C1_PointTotalsEqualFirst ==
  \A g \in Generators :
    \A i \in ReturnedAt(g) :
      /\ gens[g][1].assignedExams # <<>>
      /\ ExamAt(g, i).pointsPossible = gens[g][1].assignedExams[1].pointsPossible

\* Two students returned with equal totals and a third was refused for its
\* different total.
C1_Witness ==
  \E i, j, k \in 1..Len(log[1]) :
    /\ i # j
    /\ log[1][i].outcome = "ok" /\ log[1][j].outcome = "ok"
    /\ log[1][i].student # log[1][j].student
    /\ log[1][k].outcome = "points"
    /\ ExamAt(1, k).pointsPossible # ExamAt(1, i).pointsPossible

\* C2: an exam that returned holds no section (question) whose specification
\* object differs from the one recorded for its id, so any two sections
\* (questions) of returned exams that share an id share the specification
\* object.
C2_NoSpecDrift ==
  \A g \in Generators :
    \A i \in ReturnedAt(g) :
      /\ \A k \in 1..Len(ExamAt(g, i).assignedSections) :
           LET section == ExamAt(g, i).assignedSections[k].section
           IN /\ section.section_id \in DOMAIN gens[g][1].sectionStatsMap
              /\ gens[g][1].sectionStatsMap[section.section_id].section.spec = section.spec
      /\ \A kp \in QuestionsOf(ExamAt(g, i)) :
           LET question == QuestionAt(ExamAt(g, i), kp).question
           IN /\ question.question_id \in DOMAIN gens[g][1].questionStatsMap
              /\ gens[g][1].questionStatsMap[question.question_id].question.spec = question.spec
      /\ \A j \in ReturnedAt(g) :
           /\ \A k \in 1..Len(ExamAt(g, i).assignedSections),
                 m \in 1..Len(ExamAt(g, j).assignedSections) :
                LET a == ExamAt(g, i).assignedSections[k].section
                    b == ExamAt(g, j).assignedSections[m].section
                IN a.section_id = b.section_id => a.spec = b.spec
           /\ \A kp \in QuestionsOf(ExamAt(g, i)), mq \in QuestionsOf(ExamAt(g, j)) :
                LET a == QuestionAt(ExamAt(g, i), kp).question
                    b == QuestionAt(ExamAt(g, j), mq).question
                IN a.question_id = b.question_id => a.spec = b.spec

\* After a student returned, one student was refused for a section from
\* another specification under a known id, and one for such a question.
C2_Witness ==
  /\ examIn = ExamDrift
  /\ \E i, j, k \in 1..Len(log[1]) :
       /\ i < j /\ i < k
       /\ log[1][i].outcome = "ok"
       /\ log[1][j].outcome = "drift" /\ log[1][k].outcome = "drift"
       /\ ExamAt(1, j).assignedSections[1].section.spec
            # ExamAt(1, i).assignedSections[1].section.spec
       /\ ExamAt(1, k).assignedSections[1].section.spec
            = ExamAt(1, i).assignedSections[1].section.spec
       /\ QuestionAt(ExamAt(1, k), <<2, 1>>).question.spec
            # QuestionAt(ExamAt(1, i), <<2, 1>>).question.spec

\* What C3 compares of one assignExam invocation: the exam uuid, the section
\* ids and uuids, the question ids and uuids.
IdsAndUuids(event) ==
  [i \in 1..Len(event.built) |->
    [ uuid |-> event.built[i].uuid,
      sections |->
        [k \in 1..Len(event.built[i].assignedSections) |->
          LET as == event.built[i].assignedSections[k]
          IN [ section_id |-> as.section.section_id, uuid |-> as.uuid,
               questions |-> [p \in 1..Len(as.assignedQuestions) |->
                 [ question_id |-> as.assignedQuestions[p].question.question_id,
                   uuid |-> as.assignedQuestions[p].uuid ]] ]] ]]

SameRosterUpTo(n) ==
  /\ n <= Len(log[1]) /\ n <= Len(log[2])
  /\ \A i \in 1..n : log[1][i].student = log[2][i].student

PlainStrategy(g) == Constructed(g) /\ gens[g][1].options.uuid_strategy = "plain"

\* C3: two generators built from the same exam and options, plain strategy,
\* fed the same roster in the same order, give every student the same exam
\* uuid, section ids and uuids, question ids and uuids.
C3_Determinism ==
  (PlainStrategy(1) /\ PlainStrategy(2)) =>
    \A n \in 1..MaxPairAssigned :
      SameRosterUpTo(n) => IdsAndUuids(log[1][n]) = IdsAndUuids(log[2][n])

\* Both generators have been fed the same two different students, and both
\* built their exams.
C3_Witness ==
  /\ PlainStrategy(1) /\ PlainStrategy(2)
  /\ ~Truthy(optionsIn, "choose_all")
  /\ examIn = ExamPoints
  /\ SameRosterUpTo(2)
  /\ log[1][1].student # log[1][2].student
  /\ BuiltAt(1) = {1, 2} /\ BuiltAt(2) = {1, 2}

\* C4: the exam built for a student does not depend on which students the
\* generator was fed before, nor on their order (plain strategy).
C4_NoInterleaving ==
  \A g, h \in Generators :
    (PlainStrategy(g) /\ PlainStrategy(h)) =>
      \A i \in 1..Len(log[g]), j \in 1..Len(log[h]) :
        log[g][i].student = log[h][j].student => log[g][i].built = log[h][j].built

\* The two generators were fed the same two students in opposite orders,
\* under random section choice.
C4_Witness ==
  /\ PlainStrategy(1) /\ PlainStrategy(2)
  /\ ~Truthy(optionsIn, "choose_all") /\ ~Truthy(optionsIn, "consistent_randomization")
  /\ examIn = ExamPoints
  /\ Len(log[1]) = 2 /\ Len(log[2]) = 2
  /\ log[1][1].student = log[2][2].student
  /\ log[1][2].student = log[2][1].student
  /\ log[1][1].student # log[1][2].student
  /\ BuiltAt(1) = {1, 2} /\ BuiltAt(2) = {1, 2}
  /\ ExamAt(1, 1).assignedSections # ExamAt(1, 2).assignedSections

\* C5: under the plain strategy an exam's uuid is uniqname-exam_id, a
\* section's is uniqname-exam_id-s-section_id and a question's is
\* uniqname-exam_id-q-question_id.
C5_PlainUuidForm ==
  \A g \in Generators :
    PlainStrategy(g) =>
      \A i \in BuiltAt(g) :
        LET ae == ExamAt(g, i)
            who == log[g][i].student
        IN /\ ae.uuid = who \o "-" \o examIn.exam_id
           /\ \A k \in 1..Len(ae.assignedSections) :
                ae.assignedSections[k].uuid =
                  who \o "-" \o examIn.exam_id \o "-s-"
                      \o ae.assignedSections[k].section.section_id
           /\ \A kp \in QuestionsOf(ae) :
                QuestionAt(ae, kp).uuid =
                  who \o "-" \o examIn.exam_id \o "-q-"
                      \o QuestionAt(ae, kp).question.question_id

\* The test exam of test/test-exams/gen.ts, assigned under the plain strategy.
C5_Witness ==
  /\ PlainStrategy(1)
  /\ examIn = ExamSimple
  /\ \E i \in BuiltAt(1) :
       /\ log[1][i].student = "ann"
       /\ ExamAt(1, i).uuid = "ann-simple_test"
       /\ ExamAt(1, i).assignedSections[1].uuid = "ann-simple_test-s-section"
       /\ QuestionAt(ExamAt(1, i), <<1, 2>>).uuid = "ann-simple_test-q-simple_test_2"

\* C6: under the plain strategy different pairs (uniqname, id) get different
\* uuids, also when uniqnames or ids contain "-".
C6_PlainUuidsUnique ==
  \A i, j \in 1..Len(uuidCalls) :
    ( /\ uuidCalls[i].options.uuid_strategy = "plain"
      /\ uuidCalls[j].options.uuid_strategy = "plain"
      /\ <<uuidCalls[i].uniqname, uuidCalls[i].id>> # <<uuidCalls[j].uniqname, uuidCalls[j].id>> )
    => uuidCalls[i].uuid # uuidCalls[j].uuid

StudentOf(uniqname) == CHOOSE student \in Students : student.uniqname = uniqname

\* The sections and questions the choosers pick for a student of generator g,
\* and the number of skins picked for each.
ChosenSections(g, student) ==
  Flatten([c \in 1..Len(gens[g][1].exam.sections) |->
    chooseSections(gens[g][1].exam.sections[c], gens[g][1].exam, student,
      IF Truthy(gens[g][1].options, "choose_all") THEN CHOOSE_ALL
      ELSE createSectionChoiceRandomizer(makeSeed(gens[g][1].options, student),
                                         gens[g][1].exam))])

ChosenQuestions(g, section, student) ==
  Flatten([c \in 1..Len(section.questions) |->
    chooseQuestions(section.questions[c], gens[g][1].exam, student,
      IF Truthy(gens[g][1].options, "choose_all") THEN CHOOSE_ALL
      ELSE createQuestionChoiceRandomizer(makeSeed(gens[g][1].options, student),
                                          gens[g][1].exam, section))])

SectionSkinCount(g, section, student) ==
  IF section.skin.component_kind # "chooser" THEN 1
  ELSE Len(chooseSkins(section.skin, gens[g][1].exam, student,
         IF Truthy(gens[g][1].options, "choose_all") THEN CHOOSE_ALL
         ELSE createSectionSkinRandomizer(makeSeed(gens[g][1].options, student),
                                          gens[g][1].exam, section)))

QuestionSkinCount(g, question, student) ==
  IF question.skin.component_kind # "chooser" THEN 1
  ELSE Len(chooseSkins(question.skin, gens[g][1].exam, student,
         IF Truthy(gens[g][1].options, "choose_all") THEN CHOOSE_ALL
         ELSE createQuestionSkinRandomizer(makeSeed(gens[g][1].options, student),
                                           gens[g][1].exam, question)))

\* Some chosen section or question of the student gets a number of skins
\* other than one.
SkinMultiplicity(g, student) ==
  \E k \in 1..Len(ChosenSections(g, student)) :
    LET section == ChosenSections(g, student)[k]
    IN \/ SectionSkinCount(g, section, student) # 1
       \/ \E p \in 1..Len(ChosenQuestions(g, section, student)) :
            QuestionSkinCount(g, ChosenQuestions(g, section, student)[p], student) # 1

\* C7: with allow_duplicates false, a build whose skin selection yields other
\* than one skin for a chosen section or question throws, and every exam that
\* was built has exactly one AssignedSection per chosen section and one
\* AssignedQuestion per chosen question, in order.
C7_OneSkinPerSlot ==
  \A g \in Generators :
    (Constructed(g) /\ ~gens[g][1].options.allow_duplicates) =>
      \A i \in 1..Len(log[g]) :
        LET student == StudentOf(log[g][i].student)
            chosen == ChosenSections(g, student)
        IN /\ SkinMultiplicity(g, student) =>
                (log[g][i].outcome = "multiplicity" /\ log[g][i].built = <<>>)
           /\ i \in BuiltAt(g) =>
                /\ Len(ExamAt(g, i).assignedSections) = Len(chosen)
                /\ \A k \in 1..Len(chosen) :
                     LET as == ExamAt(g, i).assignedSections[k]
                         qs == ChosenQuestions(g, chosen[k], student)
                     IN /\ as.section = chosen[k]
                        /\ as.sectionIndex = k - 1
                        /\ Len(as.assignedQuestions) = Len(qs)
                        /\ \A p \in 1..Len(qs) :
                             /\ as.assignedQuestions[p].question = qs[p]
                             /\ as.assignedQuestions[p].partIndex = p - 1

\* Duplicates are not allowed; one student's question got two skins and the
\* build threw, another student's exam was built with one skin per slot.
C7_Witness ==
  /\ Constructed(1) /\ ~gens[1][1].options.allow_duplicates
  /\ examIn = ExamSkins /\ ~Truthy(optionsIn, "choose_all")
  /\ \E i, j \in 1..Len(log[1]) :
       /\ log[1][i].outcome = "multiplicity"
       /\ SkinMultiplicity(1, StudentOf(log[1][i].student))
       /\ log[1][j].outcome = "ok"
       /\ ~SkinMultiplicity(1, StudentOf(log[1][j].student))

\* The options name uuidv5 and carry no namespace, or one shorter than 16.
InvalidUuidv5Options(options) ==
  /\ Has(options, "uuid_strategy") /\ options.uuid_strategy = "uuidv5"
  /\ \/ ~Has(options, "uuidv5_namespace")
     \/ Len(options.uuidv5_namespace) < 16

\* C8: constructing with uuid_strategy "uuidv5" and no namespace, or a
\* namespace shorter than 16 characters, throws: no generator exists and no
\* student is processed.
C8_InvalidOptionsRejected ==
  InvalidUuidv5Options(optionsIn) =>
    \A g \in Generators :
      /\ ctor[g] # "ok"
      /\ gens[g] = <<>>
      /\ log[g] = <<>>

\* The constructor ran and threw: once for a missing namespace, once for an
\* empty one, once for one of 15 characters.
C8_Witness ==
  /\ ctor[1] = "threw"
  /\ InvalidUuidv5Options(optionsIn)
  /\ Has(optionsIn, "uuidv5_namespace")
  /\ Len(optionsIn.uuidv5_namespace) = 15

\* The events of the latest call on generator g.
CallEvents(g) == SubSeq(log[g], call[g].start + 1, Len(log[g]))

\* C9: when assignExams fails on the student at roster position i, the failure
\* reaches the caller and nothing is built, checked or recorded for a later
\* position.
C9_FailFast ==
  \A g \in Generators :
    LET events == CallEvents(g)
        n == Len(events)
    IN /\ n <= Len(call[g].roster)
       /\ \A k \in 1..n : events[k].student = call[g].roster[k].uniqname
       /\ \A k \in 1..n : k < n => events[k].outcome = "ok"
       /\ call[g].threw <=> (n > 0 /\ events[n].outcome # "ok")
       /\ ~call[g].threw => n = Len(call[g].roster)
       /\ Constructed(g) =>
            Len(gens[g][1].assignedExams) =
              Cardinality({i \in 1..Len(log[g]) : log[g][i].outcome \in {"ok", "points"}})

\* assignExams failed on the first of two students; the second was never
\* processed.
C9_Witness ==
  /\ Len(call[1].roster) = 2
  /\ call[1].threw
  /\ Len(CallEvents(1)) = 1
  /\ CallEvents(1)[1].outcome # "ok"
  /\ call[1].start > 0

SectionIds(ae) ==
  [k \in 1..Len(ae.assignedSections) |-> ae.assignedSections[k].section.section_id]

QuestionIds(ae) ==
  [k \in 1..Len(ae.assignedSections) |->
    [p \in 1..Len(ae.assignedSections[k].assignedQuestions) |->
      ae.assignedSections[k].assignedQuestions[p].question.question_id]]

\* C10: with consistent_randomization set, any two students assigned on a
\* generator receive the same sequence of section ids and, in each section,
\* the same sequence of question ids.
C10_ConsistentSelection ==
  \A g \in Generators :
    (Constructed(g) /\ Truthy(gens[g][1].options, "consistent_randomization")) =>
      \A i, j \in BuiltAt(g) :
        /\ SectionIds(ExamAt(g, i)) = SectionIds(ExamAt(g, j))
        /\ QuestionIds(ExamAt(g, i)) = QuestionIds(ExamAt(g, j))

\* Two students whose own seeds pick different sections were assigned under
\* consistent randomization.
C10_Witness ==
  /\ Constructed(1) /\ Truthy(gens[1][1].options, "consistent_randomization")
  /\ ~Truthy(optionsIn, "choose_all")
  /\ examIn = ExamPoints
  /\ \E i, j \in ReturnedAt(1) :
       /\ log[1][i].student = "ann" /\ log[1][j].student = "bob"
       /\ SectionIds(ExamAt(1, i)) = <<"sec_a">>

\* The skins a section's skin chooser yields under a randomizer of this seed.
SectionSkinsSeeded(g, section, student, seed) ==
  chooseSkins(section.skin, gens[g][1].exam, student,
              createSectionSkinRandomizer(seed, gens[g][1].exam, section))

Elements(seq) == {seq[i] : i \in 1..Len(seq)}

\* C11: with consistent_randomization set, the skin randomizers are still
\* seeded from the individual student: every assigned section whose skin
\* comes from a chooser carries a skin drawn with the student's uniqname as
\* the seed, so students can differ in skins.
C11_SkinsSeededByStudent ==
  \A g \in Generators :
    (/\ Constructed(g)
     /\ Truthy(gens[g][1].options, "consistent_randomization")
     /\ ~Truthy(gens[g][1].options, "choose_all")) =>
      \A i \in BuiltAt(g) :
        \A k \in 1..Len(ExamAt(g, i).assignedSections) :
          LET as == ExamAt(g, i).assignedSections[k]
              student == StudentOf(log[g][i].student)
          IN as.section.skin.component_kind = "chooser" =>
               as.skin \in Elements(SectionSkinsSeeded(g, as.section, student,
                                                       student.uniqname))

\* Number of AssignedSections / AssignedQuestions with an id over a sequence
\* of assigned exams.
CountSections(exams, id) ==
  SumSeq([e \in 1..Len(exams) |->
    Cardinality({k \in 1..Len(exams[e].assignedSections) :
                   exams[e].assignedSections[k].section.section_id = id})])

CountQuestions(exams, id) ==
  SumSeq([e \in 1..Len(exams) |->
    Cardinality({kp \in QuestionsOf(exams[e]) :
                   QuestionAt(exams[e], kp).question.question_id = id})])

SectionIdsIn(exams) ==
  UNION {{exams[e].assignedSections[k].section.section_id :
            k \in 1..Len(exams[e].assignedSections)} : e \in 1..Len(exams)}

QuestionIdsIn(exams) ==
  UNION {{QuestionAt(exams[e], kp).question.question_id : kp \in QuestionsOf(exams[e])} :
           e \in 1..Len(exams)}

\* The stats tables of generator g count exactly the sections and questions
\* of assignedExams.
CountsExact(g) ==
  LET self == gens[g][1]
  IN /\ DOMAIN self.sectionStatsMap = SectionIdsIn(self.assignedExams)
     /\ \A id \in DOMAIN self.sectionStatsMap :
          self.sectionStatsMap[id].n = CountSections(self.assignedExams, id)
     /\ DOMAIN self.questionStatsMap = QuestionIdsIn(self.assignedExams)
     /\ \A id \in DOMAIN self.questionStatsMap :
          self.questionStatsMap[id].n = CountQuestions(self.assignedExams, id)

\* C12 as stated: between assignExam calls, whether they returned or threw,
\* every count of the stats tables equals the number of AssignedSections
\* (AssignedQuestions) with that id over assignedExams.
C12_CountsExactAlways ==
  \A g \in Generators : Constructed(g) => CountsExact(g)

\* C12 amended: the counts are exact as long as no call was refused by the
\* specification check of checkExam; after such a refusal the counts are
\* never below the numbers in assignedExams (the refused exam was counted up
\* to the offending entry and is not in assignedExams).
C12_CountsExactUnlessDrift ==
  \A g \in Generators :
    Constructed(g) =>
      LET self == gens[g][1]
      IN /\ (\A i \in 1..Len(log[g]) : log[g][i].outcome # "drift") => CountsExact(g)
         /\ SectionIdsIn(self.assignedExams) \subseteq DOMAIN self.sectionStatsMap
         /\ \A id \in DOMAIN self.sectionStatsMap :
              self.sectionStatsMap[id].n >= CountSections(self.assignedExams, id)
         /\ QuestionIdsIn(self.assignedExams) \subseteq DOMAIN self.questionStatsMap
         /\ \A id \in DOMAIN self.questionStatsMap :
              self.questionStatsMap[id].n >= CountQuestions(self.assignedExams, id)

\* Without any specification drift, a question id was counted twice, an id
\* was inserted with count 1, and one call threw on its point total.
C12_Witness ==
  /\ Constructed(1)
  /\ \A i \in 1..Len(log[1]) : log[1][i].outcome # "drift"
  /\ \E i \in 1..Len(log[1]) : log[1][i].outcome = "points"
  /\ \E id \in DOMAIN gens[1][1].questionStatsMap : gens[1][1].questionStatsMap[id].n = 2
  /\ \E id \in DOMAIN gens[1][1].questionStatsMap : gens[1][1].questionStatsMap[id].n = 1

\* The exams of the events of generator g that reached the push of
\* assignExam, in the order of the events.
PushedExams(g) ==
  LET pushed == SelectSeq(log[g], LAMBDA event : event.outcome \in {"ok", "points"})
  IN [i \in 1..Len(pushed) |-> pushed[i].built[1]]

Min(S) == CHOOSE x \in S : \A y \in S : x <= y

\* The first section (question) with an id in the first built exam of
\* generator g that holds one.
FirstSectionWith(g, id) ==
  LET ae == ExamAt(g, Min({i \in BuiltAt(g) : id \in SectionIdsIn(<<ExamAt(g, i)>>)}))
  IN ae.assignedSections[
       Min({k \in 1..Len(ae.assignedSections) :
              ae.assignedSections[k].section.section_id = id})].section

FirstQuestionWith(g, id) ==
  LET ae == ExamAt(g, Min({i \in BuiltAt(g) : id \in QuestionIdsIn(<<ExamAt(g, i)>>)}))
      first == CHOOSE kp \in QuestionsOf(ae) :
                 /\ QuestionAt(ae, kp).question.question_id = id
                 /\ \A mq \in QuestionsOf(ae) :
                      QuestionAt(ae, mq).question.question_id = id =>
                        (kp[1] < mq[1] \/ (kp[1] = mq[1] /\ kp[2] <= mq[2]))
  IN QuestionAt(ae, first).question

\* C13: students are processed one after the other in roster order:
\* assignedExams holds the pushed exams in the order of processing, the
\* events of a call follow its roster, after assignExams on a fresh generator
\* returned assignedExams[k].student is students[k] for every k, and each
\* stats entry holds the section (question) of the first student in roster
\* order that had the id.
C13_RosterOrder ==
  \A g \in Generators :
    Constructed(g) =>
      LET self == gens[g][1]
          events == CallEvents(g)
      IN /\ self.assignedExams = PushedExams(g)
         /\ \A k \in 1..Len(events) : events[k].student = call[g].roster[k].uniqname
         /\ (call[g].start = 0 /\ ~call[g].threw) =>
              /\ Len(self.assignedExams) = Len(call[g].roster)
              /\ \A k \in 1..Len(call[g].roster) :
                   self.assignedExams[k].student = call[g].roster[k]
         /\ call[g].start = 0 =>
              /\ \A id \in DOMAIN self.sectionStatsMap :
                   self.sectionStatsMap[id].section = FirstSectionWith(g, id)
              /\ \A id \in DOMAIN self.questionStatsMap :
                   self.questionStatsMap[id].question = FirstQuestionWith(g, id)

\* assignExams returned on a fresh generator for a roster of two different
\* students.
C13_Witness ==
  /\ Constructed(1)
  /\ call[1].start = 0 /\ ~call[1].threw
  /\ Len(call[1].roster) = 2
  /\ call[1].roster[1] # call[1].roster[2]
  /\ Len(gens[1][1].assignedExams) = 2
  /\ gens[1][1].assignedExams[1].student = call[1].roster[1]
  /\ gens[1][1].assignedExams[2].student = call[1].roster[2]

\* Every section and question of the exam is given directly and no skin
\* comes from a chooser.
AllFixed(exam) ==
  \A c \in 1..Len(exam.sections) :
    /\ exam.sections[c].kind = "fixed"
    /\ exam.sections[c].item.skin.component_kind # "chooser"
    /\ \A q \in 1..Len(exam.sections[c].item.questions) :
         /\ exam.sections[c].item.questions[q].kind = "fixed"
         /\ exam.sections[c].item.questions[q].item.skin.component_kind # "chooser"

\* The points of all questions of an all-fixed exam.
FixedPoints(exam) ==
  SumSeq(Flatten([c \in 1..Len(exam.sections) |->
    [q \in 1..Len(exam.sections[c].item.questions) |->
      exam.sections[c].item.questions[q].item.pointsPossible]]))

\* C14: for an exam of fixed sections and questions under the plain
\* strategy, every student is assigned: the exam holds the specification's
\* sections in order, each with its questions in order, pointsPossible is the
\* sum of the questions' points (8 for the questions worth 3 and 5), and
\* students with different uniqnames get different exam uuids.
C14_FixedExamAssigned ==
  \A g \in Generators :
    (/\ Constructed(g)
     /\ AllFixed(gens[g][1].exam)
     /\ gens[g][1].options.uuid_strategy = "plain") =>
      LET exam == gens[g][1].exam
      IN \A i \in 1..Len(log[g]) :
           /\ log[g][i].outcome = "ok"
           /\ Len(ExamAt(g, i).assignedSections) = Len(exam.sections)
           /\ \A c \in 1..Len(exam.sections) :
                LET as == ExamAt(g, i).assignedSections[c]
                IN /\ as.section = exam.sections[c].item
                   /\ Len(as.assignedQuestions) = Len(as.section.questions)
                   /\ \A q \in 1..Len(as.section.questions) :
                        as.assignedQuestions[q].question = as.section.questions[q].item
           /\ ExamAt(g, i).pointsPossible = FixedPoints(exam)
           /\ exam = ExamSimple => ExamAt(g, i).pointsPossible = 8
           /\ \A j \in 1..Len(log[g]) :
                log[g][i].student # log[g][j].student =>
                  ExamAt(g, i).uuid # ExamAt(g, j).uuid

\* Two students with different uniqnames were assigned the fixed exam under
\* choose_all, each worth 8 points.
C14_Witness ==
  /\ Constructed(1)
  /\ examIn = ExamSimple
  /\ Truthy(optionsIn, "choose_all")
  /\ gens[1][1].options.uuid_strategy = "plain"
  /\ Len(gens[1][1].assignedExams) = 2
  /\ gens[1][1].assignedExams[1].student.uniqname # gens[1][1].assignedExams[2].student.uniqname
  /\ gens[1][1].assignedExams[1].pointsPossible = 8
  /\ gens[1][1].assignedExams[2].pointsPossible = 8

\* The direct createStudentUuid calls made under uuidv5.
Uuidv5Calls == {i \in 1..Len(uuidCalls) : uuidCalls[i].options.uuid_strategy = "uuidv5"}

WellFormedStudent(student) ==
  /\ Has(student, "uniqname") /\ student.uniqname # ""
  /\ Has(student, "name") /\ student.name # ""

\* C16: every StudentInfo of a roster returned by loadCSVRoster has a
\* non-empty uniqname and a non-empty name, and a file with a row lacking
\* either makes the call fail without returning a roster.
C16_RosterWellFormed ==
  utilCall.op = "loadCSVRoster" =>
    LET rows == PapaParse(utilCall.file)
    IN /\ ~utilCall.threw =>
            \A i \in 1..Len(utilCall.students) : WellFormedStudent(utilCall.students[i])
       /\ (\E i \in 1..Len(rows) : ~WellFormedStudent(rows[i])) =>
            (utilCall.threw /\ utilCall.students = <<>>)

\* C17: loadExamSpecification applied to the file written by
\* saveExamSpecification returns a value equal to the specification saved,
\* for nested objects, arrays, strings, numbers, null and RegExp values.
C17_RoundTrip ==
  utilCall.op = "loadExamSpecification" =>
    (~utilCall.threw /\ utilCall.loaded = utilCall.spec)

\* C18: errors of the file layer reach the caller: a failed read of a
\* submission or its manifest makes loadTrustedSubmissions throw, so a list
\* it returns has an entry for every file of the directory, and a failed copy
\* of the frontend bundle or of the exam media makes its operation throw.
C18_IOErrorsSurfaced ==
  /\ utilCall.op = "loadTrustedSubmissions" =>
       /\ (\E i \in 1..Len(utilCall.files) : loadTrustedSubmission(utilCall.files[i]).threw)
            => utilCall.threw
       /\ ~utilCall.threw => Len(utilCall.trusted) = Len(utilCall.files)
  /\ utilCall.op \in {"writeFrontendJS", "copyFrontendMedia"} =>
       (~utilCall.copied => utilCall.threw)

\* C20 as stated: in an exam that was assigned, for every strategy and both
\* values of allow_duplicates, no two AssignedSections share a uuid and no
\* two AssignedQuestions share a uuid.
C20_UuidsDistinct ==
  \A g \in Generators :
    \A i \in ReturnedAt(g) :
      /\ \A k, m \in 1..Len(ExamAt(g, i).assignedSections) :
           k # m => ExamAt(g, i).assignedSections[k].uuid #
                      ExamAt(g, i).assignedSections[m].uuid
      /\ \A kp, mq \in QuestionsOf(ExamAt(g, i)) :
           kp # mq => QuestionAt(ExamAt(g, i), kp).uuid # QuestionAt(ExamAt(g, i), mq).uuid

\* C20 amended: in an exam that was assigned, AssignedSections with different
\* section ids have different uuids, and so have AssignedQuestions with
\* different question ids; under uuidv4 all of them differ.  Two sections
\* (questions) of one exam with the same id share their uuid under plain and
\* uuidv5.
C20_UuidsDistinctPerId ==
  \A g \in Generators :
    \A i \in ReturnedAt(g) :
      LET ae == ExamAt(g, i)
          random == gens[g][1].options.uuid_strategy = "uuidv4"
      IN /\ \A k, m \in 1..Len(ae.assignedSections) :
              k # m =>
                (ae.assignedSections[k].uuid = ae.assignedSections[m].uuid
                   <=> (/\ ~random
                        /\ ae.assignedSections[k].section.section_id =
                             ae.assignedSections[m].section.section_id))
         /\ \A kp, mq \in QuestionsOf(ae) :
              kp # mq =>
                (QuestionAt(ae, kp).uuid = QuestionAt(ae, mq).uuid
                   <=> (/\ ~random
                        /\ QuestionAt(ae, kp).question.question_id =
                             QuestionAt(ae, mq).question.question_id))

\* With allow_duplicates set under the plain strategy, an assigned exam holds
\* two AssignedQuestions of one question id, with one uuid, next to a
\* question of another id and another uuid.
C20_Witness ==
  /\ Constructed(1)
  /\ gens[1][1].options.allow_duplicates
  /\ gens[1][1].options.uuid_strategy = "plain"
  /\ \E i \in ReturnedAt(1) :
       \E kp, mq, nr \in QuestionsOf(ExamAt(1, i)) :
         /\ kp # mq
         /\ QuestionAt(ExamAt(1, i), kp).question.question_id =
              QuestionAt(ExamAt(1, i), mq).question.question_id
         /\ QuestionAt(ExamAt(1, i), kp).uuid = QuestionAt(ExamAt(1, i), mq).uuid
         /\ QuestionAt(ExamAt(1, i), kp).uuid # QuestionAt(ExamAt(1, i), nr).uuid

\* The exams on record in generator g all have the first one's total.
RecordedPassedPoints(g) ==
  \A k \in 1..Len(gens[g][1].assignedExams) :
    gens[g][1].assignedExams[k].pointsPossible = gens[g][1].assignedExams[1].pointsPossible

\* C21 as stated: in every state, also after a call that threw,
\* assignedExams and assignedExamsByUniqname hold only exams that passed the
\* specification check and the point-total check, so no rejected exam is
\* written by writeAll.
C21_OnlyPassedRecorded ==
  /\ Constructed(1) =>
       /\ RecordedPassedPoints(1)
       /\ \A u \in DOMAIN gens[1][1].assignedExamsByUniqname :
            gens[1][1].assignedExamsByUniqname[u].pointsPossible =
              gens[1][1].assignedExams[1].pointsPossible
  /\ utilCall.op = "writeAll" =>
       \A i \in 1..Len(utilCall.out.toWrite) :
         utilCall.out.toWrite[i].manifest.pointsPossible =
           utilCall.assignedExams[1].pointsPossible

\* C21 amended: an exam refused by the specification check (or never built)
\* is not recorded; an exam refused by the point-total check is recorded
\* before the assert throws and stays: assignedExams is exactly the exams of
\* the calls that returned or were refused on their total, in order,
\* assignedExamsByUniqname maps each such student to the last of them, and
\* writeAll writes a manifest for every recorded exam.
C21_RecordedBeforePointCheck ==
  /\ Constructed(1) =>
       LET self == gens[1][1]
       IN /\ self.assignedExams = PushedExams(1)
          /\ \A i \in 1..Len(log[1]) :
               log[1][i].outcome \in {"drift", "multiplicity"} =>
                 \A k \in 1..Len(self.assignedExams) :
                   log[1][i].built # <<self.assignedExams[k]>>
          /\ DOMAIN self.assignedExamsByUniqname =
               {self.assignedExams[k].student.uniqname : k \in 1..Len(self.assignedExams)}
          /\ \A k \in 1..Len(self.assignedExams) :
               (\A m \in (k + 1)..Len(self.assignedExams) :
                  self.assignedExams[m].student # self.assignedExams[k].student) =>
                 self.assignedExamsByUniqname[self.assignedExams[k].student.uniqname] =
                   self.assignedExams[k]
          /\ Cardinality({k \in 1..Len(self.assignedExams) :
                            self.assignedExams[k].pointsPossible #
                              self.assignedExams[1].pointsPossible})
               <= Cardinality({i \in 1..Len(log[1]) : log[1][i].outcome = "points"})
  /\ utilCall.op = "writeAll" =>
       /\ Len(utilCall.out.toWrite) = Len(utilCall.assignedExams)
       /\ \A k \in 1..Len(utilCall.assignedExams) :
            \E i \in 1..Len(utilCall.out.toWrite) :
              utilCall.out.toWrite[i].manifest = createManifest(utilCall.assignedExams[k])

\* A call was refused on its point total, one was refused by the
\* specification check, and writeAll then wrote the exam with the other
\* total next to an accepted one.
C21_Witness ==
  /\ Constructed(1)
  /\ \E i \in 1..Len(log[1]) : log[1][i].outcome = "points"
  /\ utilCall.op = "writeAll"
  /\ utilCall.assignedExams = gens[1][1].assignedExams
  /\ \E i, j \in 1..Len(utilCall.out.toWrite) :
       utilCall.out.toWrite[i].manifest.pointsPossible #
         utilCall.out.toWrite[j].manifest.pointsPossible

\* What writeAll pairs for one assigned exam.
WrittenFor(ex, self) ==
  [ manifest |-> createManifest(ex),
    renderedHtml |-> renderAll(ex, self.options.frontend_js_path) ]

\* C22: after writeAll, the file name loadTrustedSubmission computes from a
\* submission carrying an assigned exam's uniqname and uuid is the manifest
\* file written for it, and that file holds this exam's manifest; the list
\* of file names has one (uniqname, uniqname-uuid) pair per assigned exam, in
\* ascending uniqname order, and each manifest is paired with the page of
\* the same exam.
C22_ManifestLookup ==
  (utilCall.op = "writeAll" /\ Constructed(1)) =>
    LET exams == utilCall.assignedExams
        out == utilCall.out
        n == Len(exams)
    IN /\ Len(out.filenames) = n
       /\ Len(out.toWrite) = n
       /\ \A k \in 1..n :
            LET name == manifestFilename([student |-> exams[k].student, uuid |-> exams[k].uuid])
            IN /\ name \in DOMAIN out.files
               /\ out.files[name].uuid = exams[k].uuid
               /\ out.files[name].student = exams[k].student
               /\ \E i \in 1..n : out.filenames[i][2] \o ".json" = name
               /\ Cardinality({i \in 1..n : out.toWrite[i] = WrittenFor(exams[k], gens[1][1])})
                    = Cardinality({j \in 1..n : exams[j] = exams[k]})
       /\ \A i \in 1..n :
            /\ out.filenames[i] = << out.toWrite[i].manifest.student.uniqname,
                                     out.toWrite[i].manifest.student.uniqname \o "-"
                                       \o out.toWrite[i].manifest.uuid >>
            /\ out.toWrite[i].renderedHtml.uuid = out.toWrite[i].manifest.uuid
            /\ out.files[out.filenames[i][2] \o ".html"].uuid = out.toWrite[i].manifest.uuid
       /\ \A i, j \in 1..n :
            i < j => ~LocaleBefore(out.filenames[j][1], out.filenames[i][1])

\* writeAll ran over exams assigned out of uniqname order, so the sort moved
\* them.
C22_Witness ==
  /\ utilCall.op = "writeAll"
  /\ Len(utilCall.assignedExams) >= 2
  /\ \E k \in 1..(Len(utilCall.assignedExams) - 1) :
       LocaleBefore(utilCall.assignedExams[k + 1].student.uniqname,
                    utilCall.assignedExams[k].student.uniqname)
  /\ Len(utilCall.out.filenames) = Len(utilCall.assignedExams)
  /\ utilCall.out.filenames[1][1] # utilCall.assignedExams[1].student.uniqname

\* C23: grade returns 0 for a blank or empty submission, pointsPossible for
\* the single selection that equals the 0-based correctIndex, 0 for any
\* other single selection, and throws for more than one selection; a
\* returned score is 0 or pointsPossible.
C23_GradeCases ==
  utilCall.op = "grade" =>
    LET sub == utilCall.aq.submission
        points == utilCall.aq.question.pointsPossible
    IN /\ (sub.blank \/ sub.selected = <<>>) =>
            (~utilCall.threw /\ utilCall.returned = <<0>>)
       /\ (~sub.blank /\ Len(sub.selected) = 1 /\ sub.selected[1] = utilCall.correctIndex) =>
            (~utilCall.threw /\ utilCall.returned = <<points>>)
       /\ (~sub.blank /\ Len(sub.selected) = 1 /\ sub.selected[1] # utilCall.correctIndex) =>
            (~utilCall.threw /\ utilCall.returned = <<0>>)
       /\ (~sub.blank /\ Len(sub.selected) > 1) =>
            (utilCall.threw /\ utilCall.returned = <<>>)
       /\ ~utilCall.threw => utilCall.returned \in {<<0>>, <<points>>}

\* The second choice was the answer, it alone was selected, and the question
\* is worth something.
C23_Witness ==
  /\ utilCall.op = "grade"
  /\ utilCall.correctIndex = 1
  /\ utilCall.aq.submission.selected = <<1>>
  /\ utilCall.aq.question.pointsPossible > 0
  /\ utilCall.returned = <<utilCall.aq.question.pointsPossible>>

\* C24: PARSONS_PARSER never throws; it returns BLANK_SUBMISSION for null,
\* undefined, whitespace-only text and an empty array, MALFORMED_SUBMISSION
\* for text that is not JSON or not a structurally valid submission, and
\* otherwise the parsed value, every element of which is a string or a list
\* of drop items with a string id and, when present, valid children.
C24_ParserTotalAndStrict ==
  utilCall.op = "PARSONS_PARSER" =>
    LET raw == utilCall.rawSubmission
    IN /\ ~utilCall.threw
       /\ IF raw.t \in {"null", "undefined"} \/ raw.blank
          THEN utilCall.kind = "BLANK_SUBMISSION"
          ELSE IF raw.parsed = <<>>
          THEN utilCall.kind = "MALFORMED_SUBMISSION"
          ELSE IF raw.parsed[1] = JsArr(<<>>)
          THEN utilCall.kind = "BLANK_SUBMISSION"
          ELSE IF isValidParsonsSubmissionStrict(raw.parsed[1]) = "true"
          THEN utilCall.kind = "value" /\ utilCall.value = raw.parsed
          ELSE utilCall.kind = "MALFORMED_SUBMISSION"

\* The parser threw.
C24_ParserThrew == utilCall.op = "PARSONS_PARSER" /\ utilCall.threw

\* The parser returned a value holding a drop item without a string id.
C24_ReturnedItemWithoutId ==
  /\ utilCall.op = "PARSONS_PARSER"
  /\ utilCall.kind = "value"
  /\ \E k \in 1..Len(utilCall.value[1].v) :
       /\ utilCall.value[1].v[k].t = "arr"
       /\ \E j \in 1..Len(utilCall.value[1].v[k].v) :
            ~(HasProp(utilCall.value[1].v[k].v[j], "id")
                /\ GetProp(utilCall.value[1].v[k].v[j], "id").t = "str")

\* The payload of a group: everything but its name.
Payloads(groups) == [i \in 1..Len(groups) |-> groups[i].submissions]

CeilOf(total, numChunks) ==
  CHOOSE c \in 0..total : c * numChunks >= total /\ (c - 1) * numChunks < total

\* C26: for an integer numChunks >= 1 and G >= 1 groups in all,
\* rechunkGradingAssignments returns between 1 and numChunks assignments,
\* none empty, each of at most ceil(G / numChunks) groups; and
\* createGradingAssignments over a non-empty list of assigned questions
\* returns at most numChunks assignments.
C26_ChunkCounts ==
  /\ ( /\ utilCall.op = "rechunkGradingAssignments"
       /\ Len(utilCall.assns) > 0
       /\ sameAssnIds(utilCall.assns)
       /\ utilCall.numChunks.isInteger /\ utilCall.numChunks.floor >= 1
       /\ Len(flatGroups(utilCall.assns)) >= 1 ) =>
       /\ ~utilCall.threw
       /\ Len(utilCall.returned) >= 1
       /\ Len(utilCall.returned) <= utilCall.numChunks.floor
       /\ \A k \in 1..Len(utilCall.returned) :
            /\ Len(utilCall.returned[k].groups) >= 1
            /\ Len(utilCall.returned[k].groups)
                 <= CeilOf(Len(flatGroups(utilCall.assns)), utilCall.numChunks.floor)
  /\ ( /\ utilCall.op = "createGradingAssignments"
       /\ Len(utilCall.aqs) > 0
       /\ utilCall.numChunks.isInteger /\ utilCall.numChunks.floor >= 1 ) =>
       /\ ~utilCall.threw
       /\ Len(utilCall.returned) >= 1
       /\ Len(utilCall.returned) <= utilCall.numChunks.floor
       /\ Len(flatGroups(utilCall.returned)) = Len(utilCall.aqs)

\* Three groups asked into two chunks come back as chunks of two and one.
C26_Witness ==
  /\ utilCall.op = "rechunkGradingAssignments"
  /\ ~utilCall.threw
  /\ utilCall.numChunks = Integer(2)
  /\ Len(flatGroups(utilCall.assns)) = 3
  /\ Len(utilCall.returned) = 2
  /\ Len(utilCall.returned[1].groups) = 2
  /\ Len(utilCall.returned[2].groups) = 1

====
